---- MODULE Spec2Model ----
(***************************************************************************)
(* The debate countdown: one Timer component instance of the debate page,  *)
(* in its two drafts (src/app/debate/page.tsx and src/unnamed/part_000),   *)
(* together with the page state that drives its props (phase, special      *)
(* flag, voice language).                                                  *)
(*                                                                         *)
(* A state of the model is the component between two events: a click        *)
(* handler or an interval callback, the render it causes, the passive      *)
(* effects of that render and the render an effect itself asks for form one *)
(* step, since React flushes them before the next timer callback or input  *)
(* event can run.  An updater passed to a state setter runs once per call,  *)
(* as in a production build.                                               *)
(*                                                                         *)
(* The speech library the component calls is modelled in its three drafts  *)
(* (src/app/lib/tts.ts lines 1-149 and 151-223, src/unnamed/part_001):     *)
(* the choice of a voice on lists of voices (SpecVoice), speak and the     *)
(* wait for the platform's voice list with the platform's events, timers   *)
(* and utterance queue (SpecTts), and the same on hosts without the speech *)
(* capability, with platform calls that throw or a store that cannot be    *)
(* read (SpecErr).  Spec is the countdown.                                 *)
(***************************************************************************)
EXTENDS Integers, Sequences, FiniteSets, TLC

VARIABLES draft, phase, timer,
          lastOp, prev, emitted, announcedCount, runTicks, runLog, resets, frozenAt,
          speechEnv,
          lib, host, synthFails, storeOk, store, memPreferred, lastPref, prefWrites,
          available, loadedAt, handler, calls, queue, handed, platformCalls, now,
          sel, phrase, pair, teams

timerVars == <<draft, phase, timer,
               lastOp, prev, emitted, announcedCount, runTicks, runLog, resets, frozenAt,
               speechEnv>>

(* The speech library and its platform: the draft, the host, which      *)
(* platform call throws, the durable store, the module variable of      *)
(* part_001, the last preference call and their number; the voice list  *)
(* the platform has now and since when, the owner of                    *)
(* synth.onvoiceschanged, the calls of speak and of the voice wait, the *)
(* platform's utterance queue, the utterances it was handed, the number *)
(* of cancel and speak calls made on it, the clock in milliseconds.     *)
ttsVars == <<lib, host, synthFails, storeOk, store, memPreferred, lastPref, prefWrites,
             available, loadedAt, handler, calls, queue, handed, platformCalls, now>>

(* One application of the choice of a voice, one of the text of a       *)
(* remaining time, two Timer instances mounted side by side, and the    *)
(* debaters of the two teams with their development timers.             *)
voiceVars == <<sel, phrase, pair, teams>>

vars == <<timerVars, ttsVars, voiceVars>>

(* ------------------------------------------------------------------ *)
(* Program constants                                                   *)
(* ------------------------------------------------------------------ *)
Threshold30 == 30
Threshold10 == 10
IntroSeconds == 60
NormalSeconds == 120
SpecialSeconds == 150

(* Besides the durations the page uses (60, 120, 150), the component is *)
(* instantiated with every duration 1..MaxOtherTotal and with the       *)
(* durations at and just above the 30 second threshold.                 *)
MaxOtherTotal == 12
OtherTotals == (1..MaxOtherTotal) \cup {Threshold30, Threshold30 + 1}

Drafts == {"page", "part0"}
Phases == {"setup", "intro", "development", "conclusion"}
VoiceLangs == {"fr-FR", "es-MX"}
NoInterval == 0

(* ------------------------------------------------------------------ *)
(* Spoken texts                                                        *)
(* ------------------------------------------------------------------ *)
(* One call of speak(text, {lang, ...}): the kind of announcement, its *)
(* language and the words of the text ("LABEL" stands for the label).  *)
Said(kind, lang, words) == [kind |-> kind, lang |-> lang, words |-> words]

(* `${word}${n > 1 ? 's' : ''}` *)
Plural(word, n) == IF n > 1 THEN word \o "s" ELSE word

(* Mutant: the minutes-and-seconds branch is missing, so a time with both *)
(* is spoken as its minutes alone.                                       *)
remainingSpeechText_DropSeconds(secondsLeft, lang) ==
    LET m == secondsLeft \div 60
        s == secondsLeft % 60
    IN  IF lang = "fr"
        THEN IF m > 0
             THEN <<"LABEL", "il te reste", ToString(m), Plural("minute", m)>>
             ELSE <<"LABEL", "il te reste", ToString(s), Plural("seconde", s)>>
        ELSE IF m > 0
             THEN <<"LABEL", "te quedan", ToString(m), Plural("minuto", m)>>
             ELSE <<"LABEL", "te quedan", ToString(s), Plural("segundo", s)>>

(* remainingSpeechText(label, secondsLeft, lang) of page.tsx *)
remainingSpeechText(secondsLeft, lang) ==
    LET m == secondsLeft \div 60
        s == secondsLeft % 60
    IN  IF lang = "fr"
        THEN IF m > 0 /\ s > 0
             THEN <<"LABEL", "il te reste", ToString(m), Plural("minute", m), "et",
                    ToString(s), Plural("seconde", s)>>
             ELSE IF m > 0
                  THEN <<"LABEL", "il te reste", ToString(m), Plural("minute", m)>>
                  ELSE <<"LABEL", "il te reste", ToString(s), Plural("seconde", s)>>
        ELSE IF m > 0 /\ s > 0
             THEN <<"LABEL", "te quedan", ToString(m), Plural("minuto", m), "y",
                    ToString(s), Plural("segundo", s)>>
             ELSE IF m > 0
                  THEN <<"LABEL", "te quedan", ToString(m), Plural("minuto", m)>>
                  ELSE <<"LABEL", "te quedan", ToString(s), Plural("segundo", s)>>

(* timeSpeech(seconds, lang) of part_000 *)
timeSpeech(seconds, lang) ==
    LET m == seconds \div 60
        s == seconds % 60
    IN  IF lang = "fr-FR"
        THEN IF m <= 0
             THEN <<ToString(s), Plural("seconde", s)>>
             ELSE IF s = 0
                  THEN <<ToString(m), Plural("minute", m)>>
                  ELSE <<ToString(m), Plural("minute", m), "et",
                         ToString(s), Plural("seconde", s)>>
        ELSE IF m <= 0
             THEN <<ToString(s), "segundos">>
             ELSE IF s = 0
                  THEN <<ToString(m), Plural("minuto", m)>>
                  ELSE <<ToString(m), Plural("minuto", m), "y",
                         ToString(s), "segundos">>

(* voiceLang of page.tsx is the constant 'es-MX'. *)
PageVoiceLang == "es-MX"

(* The threshold announcements of page.tsx. *)
ThresholdSaidPage(n) ==
    Said(IF n = Threshold30 THEN "threshold30" ELSE "threshold10", PageVoiceLang,
         <<"LABEL", "quedan", ToString(n), "segundos">>)

(* The threshold announcements of part_000, in the voice language. *)
ThresholdSaidPart0(lang, n) ==
    Said(IF n = Threshold30 THEN "threshold30" ELSE "threshold10", lang,
         IF lang = "fr-FR"
         THEN <<"LABEL", "il te reste", IF n = Threshold30 THEN "trente" ELSE "dix",
                "secondes">>
         ELSE <<"LABEL", "te quedan", IF n = Threshold30 THEN "treinta" ELSE "diez",
                "segundos">>)

(* The final announcement of page.tsx. *)
ExpiredSaidPage == Said("expired", PageVoiceLang, <<"Se acabo el tiempo para", "LABEL">>)

(* The final announcement of part_000, in the voice language. *)
ExpiredSaidPart0(lang) ==
    Said("expired", lang,
         IF lang = "fr-FR"
         THEN <<"Temps termine pour", "LABEL">>
         ELSE <<"Se acabo el tiempo para", "LABEL">>)

(* ------------------------------------------------------------------ *)
(* The Timer component: props, state, refs and its live intervals      *)
(* ------------------------------------------------------------------ *)
(* props: initialSeconds, special (the label carries the star),        *)
(*        isActive, voiceLang;  state: timeLeft, running;              *)
(* refs: warned30/warned10 (announcedRef.t30/.t10 in part_000),        *)
(*       intervalRef;  live: the intervals set and not yet cleared.    *)
NewTimer(target, initialSeconds, isActive, voiceLang) ==
    [target |-> target, initialSeconds |-> initialSeconds, special |-> FALSE,
     isActive |-> isActive, voiceLang |-> voiceLang,
     timeLeft |-> initialSeconds, running |-> FALSE,
     warned30 |-> FALSE, warned10 |-> FALSE,
     intervalRef |-> NoInterval, live |-> {}]

(* setInterval returns an identifier no live interval has. *)
NewIntervalId(t) ==
    CHOOSE i \in 1..(Cardinality(t.live) + 2) : i \notin t.live /\ i # t.intervalRef

(* Dependency lists of the tick effect. *)
TickDepsPage(t) == <<t.running, t.isActive, t.timeLeft, t.special>>
TickDepsPart0(t) == <<t.running, t.isActive, t.timeLeft, t.special, t.voiceLang>>

(* Mutant: the cleanup does not clear the interval. *)
TickCleanup_Forget(t) == t

(* Cleanup of the tick effect: if (intervalRef.current) clearInterval(...) *)
TickCleanup(t) ==
    IF t.intervalRef # NoInterval
    THEN [t EXCEPT !.live = @ \ {t.intervalRef}]
    ELSE t

(* Mutant: the interval is armed without looking at isActive. *)
TickArm_NoGate(t) ==
    IF t.running /\ t.timeLeft > 0
    THEN LET id == NewIntervalId(t)
         IN  [t EXCEPT !.intervalRef = id, !.live = @ \cup {id}]
    ELSE t

(* Body of the tick effect: arms the interval. *)
TickArm(t) ==
    IF t.running /\ t.isActive /\ t.timeLeft > 0
    THEN LET id == NewIntervalId(t)
         IN  [t EXCEPT !.intervalRef = id, !.live = @ \cup {id}]
    ELSE t

(* Mutant: the tick effect runs again without the cleanup of its        *)
(* previous run.                                                        *)
TickEffect_NoCleanup(d, before, t) ==
    IF (IF d = "page"
        THEN TickDepsPage(before) = TickDepsPage(t)
        ELSE TickDepsPart0(before) = TickDepsPart0(t))
    THEN t
    ELSE TickArm(t)

(* The tick effect on a new render `t` that follows render `before`: it *)
(* runs again only if a dependency changed.                             *)
TickEffect(d, before, t) ==
    IF (IF d = "page"
        THEN TickDepsPage(before) = TickDepsPage(t)
        ELSE TickDepsPart0(before) = TickDepsPart0(t))
    THEN t
    ELSE TickArm(TickCleanup(t))

(* Dependency list of the threshold effect of part_000. *)
ThresholdDeps(t) == <<t.timeLeft, t.running, t.isActive, t.special, t.voiceLang>>

(* Mutant: the threshold effect does not consult announcedRef. *)
ThresholdBody_NoOnce(r, t) ==
    IF ~r.running \/ ~r.isActive \/ r.timeLeft <= 0
    THEN [timer |-> t, said |-> <<>>]
    ELSE LET a30 == r.timeLeft = Threshold30
             a10 == r.timeLeft = Threshold10
         IN  [timer |-> [t EXCEPT !.warned30 = @ \/ a30, !.warned10 = @ \/ a10],
              said  |-> (IF a30 THEN <<ThresholdSaidPart0(r.voiceLang, Threshold30)>>
                                ELSE <<>>)
                        \o (IF a10 THEN <<ThresholdSaidPart0(r.voiceLang, Threshold10)>>
                                   ELSE <<>>)]

(* Body of the threshold effect of part_000; `r` is the render whose    *)
(* closure it reads, `t` carries the refs it reads and writes.          *)
ThresholdBody(r, t) ==
    IF ~r.running \/ ~r.isActive \/ r.timeLeft <= 0
    THEN [timer |-> t, said |-> <<>>]
    ELSE LET a30 == r.timeLeft = Threshold30 /\ ~t.warned30
             a10 == r.timeLeft = Threshold10 /\ ~t.warned10
         IN  [timer |-> [t EXCEPT !.warned30 = @ \/ a30, !.warned10 = @ \/ a10],
              said  |-> (IF a30 THEN <<ThresholdSaidPart0(r.voiceLang, Threshold30)>>
                                ELSE <<>>)
                        \o (IF a10 THEN <<ThresholdSaidPart0(r.voiceLang, Threshold10)>>
                                   ELSE <<>>)]

(* The threshold effect on a new render: part_000 only, and only if a   *)
(* dependency changed.                                                  *)
ThresholdEffect(d, before, t) ==
    IF d = "page" \/ ThresholdDeps(before) = ThresholdDeps(t)
    THEN [timer |-> t, said |-> <<>>]
    ELSE ThresholdBody(t, t)

(* The passive effects of a render whose initialSeconds did not change, *)
(* in source order: the tick effect, then the threshold effect.         *)
Effects(d, before, t) == ThresholdEffect(d, before, TickEffect(d, before, t))

(* Mutant: the thresholds are compared with the current value instead of *)
(* the next one.                                                         *)
TickUpdatePage_OnCurrent(t) ==
    LET next == t.timeLeft - 1
        a30 == t.timeLeft = Threshold30 /\ ~t.warned30
        a10 == t.timeLeft = Threshold10 /\ ~t.warned10
    IN  [timer |-> [t EXCEPT !.warned30 = @ \/ a30,
                             !.warned10 = @ \/ a10,
                             !.running = IF next <= 0 THEN FALSE ELSE @,
                             !.timeLeft = IF next <= 0 THEN 0 ELSE next],
         said  |-> (IF a30 THEN <<ThresholdSaidPage(Threshold30)>> ELSE <<>>)
                   \o (IF a10 THEN <<ThresholdSaidPage(Threshold10)>> ELSE <<>>)
                   \o (IF next <= 0 THEN <<ExpiredSaidPage>> ELSE <<>>)]

(* Mutant: the updater reaches 0 without setRunning(false). *)
TickUpdatePage_KeepRunning(t) ==
    LET next == t.timeLeft - 1
        a30 == next = Threshold30 /\ ~t.warned30
        a10 == next = Threshold10 /\ ~t.warned10
    IN  [timer |-> [t EXCEPT !.warned30 = @ \/ a30,
                             !.warned10 = @ \/ a10,
                             !.timeLeft = IF next <= 0 THEN 0 ELSE next],
         said  |-> (IF a30 THEN <<ThresholdSaidPage(Threshold30)>> ELSE <<>>)
                   \o (IF a10 THEN <<ThresholdSaidPage(Threshold10)>> ELSE <<>>)
                   \o (IF next <= 0 THEN <<ExpiredSaidPage>> ELSE <<>>)]

(* The updater run by the interval callback of page.tsx. *)
TickUpdatePage(t) ==
    LET next == t.timeLeft - 1
        a30 == next = Threshold30 /\ ~t.warned30
        a10 == next = Threshold10 /\ ~t.warned10
    IN  [timer |-> [t EXCEPT !.warned30 = @ \/ a30,
                             !.warned10 = @ \/ a10,
                             !.running = IF next <= 0 THEN FALSE ELSE @,
                             !.timeLeft = IF next <= 0 THEN 0 ELSE next],
         said  |-> (IF a30 THEN <<ThresholdSaidPage(Threshold30)>> ELSE <<>>)
                   \o (IF a10 THEN <<ThresholdSaidPage(Threshold10)>> ELSE <<>>)
                   \o (IF next <= 0 THEN <<ExpiredSaidPage>> ELSE <<>>)]

(* Mutant: the expiry test is t <= 0, one tick late. *)
TickUpdatePart0_ExpireLate(t) ==
    IF t.timeLeft <= 0
    THEN [timer |-> [t EXCEPT !.running = FALSE, !.timeLeft = 0],
          said  |-> <<ExpiredSaidPart0(t.voiceLang)>>]
    ELSE [timer |-> [t EXCEPT !.timeLeft = @ - 1], said |-> <<>>]

(* The updater run by the interval callback of part_000. *)
TickUpdatePart0(t) ==
    IF t.timeLeft <= 1
    THEN [timer |-> [t EXCEPT !.running = FALSE, !.timeLeft = 0],
          said  |-> <<ExpiredSaidPart0(t.voiceLang)>>]
    ELSE [timer |-> [t EXCEPT !.timeLeft = @ - 1], said |-> <<>>]

TickUpdate(d, t) == IF d = "page" THEN TickUpdatePage(t) ELSE TickUpdatePart0(t)

(* Mutant: the button is never disabled. *)
ButtonDisabled_Never(t) == FALSE

(* The button is rendered disabled when timeLeft === 0. *)
ButtonDisabled(t) == t.timeLeft = 0

(* The button reads Pause while running and Start otherwise. *)
ButtonLabel(t) == IF t.running THEN "Pause" ELSE "Start"

(* toggleRunning of page.tsx, the onClick of the Start/Pause button. *)
toggleRunningPage(t) ==
    [timer |-> [t EXCEPT !.running = ~@],
     said  |-> IF t.running
               THEN <<Said("remaining", PageVoiceLang,
                           remainingSpeechText(t.timeLeft, "es"))>>
               ELSE <<>>]

(* toggleRunning of part_000. *)
toggleRunningPart0(t) ==
    IF t.running
    THEN [timer |-> [t EXCEPT !.running = FALSE],
          said  |-> <<Said("remaining", t.voiceLang,
                           <<"LABEL", IF t.voiceLang = "fr-FR" THEN "il te reste"
                                                               ELSE "te quedan">>
                               \o timeSpeech(t.timeLeft, t.voiceLang))>>]
    ELSE [timer |-> IF t.timeLeft > 0 THEN [t EXCEPT !.running = TRUE] ELSE t,
          said  |-> <<>>]

toggleRunning(d, t) == IF d = "page" THEN toggleRunningPage(t) ELSE toggleRunningPart0(t)

(* Mutant: reset forgets warned10Ref. *)
reset_KeepWarned10(t) ==
    [t EXCEPT !.running = FALSE, !.timeLeft = t.initialSeconds,
              !.warned30 = FALSE]

(* reset of page.tsx. *)
reset(t) ==
    [t EXCEPT !.running = FALSE, !.timeLeft = t.initialSeconds,
              !.warned30 = FALSE, !.warned10 = FALSE]

(* Mutant: resetTimer flips running as toggleRunning does. *)
resetTimer_Toggle(t) ==
    [t EXCEPT !.running = ~@, !.timeLeft = t.initialSeconds,
              !.warned30 = FALSE, !.warned10 = FALSE]

(* resetTimer of part_000. *)
resetTimer(t) ==
    [t EXCEPT !.running = FALSE, !.timeLeft = t.initialSeconds,
              !.warned30 = FALSE, !.warned10 = FALSE]

ResetClick(d, t) == IF d = "page" THEN reset(t) ELSE resetTimer(t)

(* Mutant: the effect on initialSeconds does not set timeLeft. *)
InitialSecondsBodyPage_NoTime(t) ==
    [t EXCEPT !.running = FALSE, !.warned30 = FALSE, !.warned10 = FALSE]

(* Body of the effect on initialSeconds of page.tsx: what it sets. *)
InitialSecondsBodyPage(t) ==
    [t EXCEPT !.timeLeft = t.initialSeconds, !.running = FALSE,
              !.warned30 = FALSE, !.warned10 = FALSE]

(* Mutant: the effect on initialSeconds of part_000 leaves running alone. *)
InitialSecondsBodyPart0_KeepRunning(t) ==
    [t EXCEPT !.timeLeft = t.initialSeconds,
              !.warned30 = FALSE, !.warned10 = FALSE]

(* Body of the effect on initialSeconds of part_000: what it sets. *)
InitialSecondsBodyPart0(t) ==
    [t EXCEPT !.running = FALSE, !.timeLeft = t.initialSeconds,
              !.warned30 = FALSE, !.warned10 = FALSE]

(* The render that received a new initialSeconds (`t`, whose state is    *)
(* still the old one) and what follows it: its effects in source order   *)
(* (the label changed with the star, so the tick and threshold effects   *)
(* run again; the effect on initialSeconds writes the refs at once and   *)
(* asks for the new state), then the render of that state and its        *)
(* effects.                                                              *)
InitialSecondsEffect(d, t) ==
    LET e1 == TickArm(TickCleanup(t))
        s2 == IF d = "page" THEN InitialSecondsBodyPage(e1) ELSE InitialSecondsBodyPart0(e1)
        e2 == [e1 EXCEPT !.warned30 = s2.warned30, !.warned10 = s2.warned10]
        e3 == IF d = "page" THEN [timer |-> e2, said |-> <<>>] ELSE ThresholdBody(t, e2)
        r2 == [e3.timer EXCEPT !.running = s2.running, !.timeLeft = s2.timeLeft]
        e4 == Effects(d, t, r2)
    IN  [timer |-> e4.timer, said |-> e3.said \o e4.said]

(* The timer's panel is displayed only in the timer's own phase. *)
Visible(p, t) == p = t.target

(* ------------------------------------------------------------------ *)
(* The states of the countdown, read off the component                 *)
(* ------------------------------------------------------------------ *)
IsRunning(t) == t.running
IsExpired(t) == ~t.running /\ t.timeLeft = 0
(* Stopped with time left; the code keeps no other trace of a pause.   *)
IsPaused(t) == ~t.running /\ t.timeLeft > 0
(* Stopped, full time, nothing announced: as after construction.       *)
IsIdle(t) ==
    /\ ~t.running
    /\ t.timeLeft = t.initialSeconds
    /\ ~t.warned30
    /\ ~t.warned10
State(t) ==
    IF IsRunning(t) THEN "Running"
    ELSE IF IsExpired(t) THEN "Expired"
    ELSE IF IsIdle(t) THEN "Idle"
    ELSE "Paused"

(* ------------------------------------------------------------------ *)
(* History kept for the properties                                     *)
(* ------------------------------------------------------------------ *)
(* Markers below every count of ticks and every remaining time. *)
NoRun == 0 - 1
NotFrozen == 0 - 1
CountKind(said, kind) == Cardinality({i \in 1..Len(said) : said[i].kind = kind})
LogOf(said, n) == [i \in 1..Len(said) |-> [kind |-> said[i].kind, at |-> n]]

(* lastOp, prev, emitted: the last operation, the timer before it and   *)
(* the speak calls it made.  announcedCount: threshold announcements    *)
(* since the last reset.  runTicks, runLog: ticks and announcements of  *)
(* a run started from Idle while active and not interrupted since.      *)
(* resets: consecutive resets (2 = two or more).  frozenAt: timeLeft of *)
(* a running timer when it was deactivated, until another operation     *)
(* than a phase change touches it.                                      *)
Record(op, t, said) ==
    /\ lastOp' = op
    /\ prev' = timer
    /\ emitted' = said
    /\ announcedCount' =
           IF op \in {"reset", "setSpecial"}
           THEN [t30 |-> 0, t10 |-> 0]
           ELSE [t30 |-> announcedCount.t30 + CountKind(said, "threshold30"),
                 t10 |-> announcedCount.t10 + CountKind(said, "threshold10")]
    /\ runTicks' =
           IF op = "start" /\ IsIdle(timer) /\ timer.isActive /\ t.running THEN 0
           ELSE IF op = "tick" /\ runTicks # NoRun THEN runTicks + 1
           ELSE NoRun
    /\ runLog' =
           IF op = "start" /\ IsIdle(timer) /\ timer.isActive /\ t.running
           THEN LogOf(said, 0)
           ELSE IF op = "tick" /\ runTicks # NoRun THEN runLog \o LogOf(said, runTicks + 1)
           ELSE <<>>
    /\ resets' = IF op = "reset" THEN (IF resets >= 1 THEN 2 ELSE 1) ELSE 0
    /\ frozenAt' =
           IF op # "setPhase" THEN NotFrozen
           ELSE IF timer.isActive /\ ~t.isActive
                THEN (IF timer.running THEN timer.timeLeft ELSE NotFrozen)
                ELSE IF timer.isActive /\ t.isActive THEN NotFrozen
                ELSE frozenAt

(* ------------------------------------------------------------------ *)
(* The speech library: strings                                         *)
(* ------------------------------------------------------------------ *)
(* The library is kept in its three drafts: "tts1" is tts.ts lines      *)
(* 1-149, "tts2" is tts.ts lines 151-223, "part1" is part_001.          *)
Libs == {"tts1", "tts2", "part1"}

(* A language tag or a voice name is the sequence of its characters.   *)
UpperLetters == <<"A", "B", "C", "D", "E", "F", "G", "H", "I", "J", "K", "L", "M",
                  "N", "O", "P", "Q", "R", "S", "T", "U", "V", "W", "X", "Y", "Z">>
LowerLetters == <<"a", "b", "c", "d", "e", "f", "g", "h", "i", "j", "k", "l", "m",
                  "n", "o", "p", "q", "r", "s", "t", "u", "v", "w", "x", "y", "z">>

(* String.prototype.toLowerCase *)
toLowerCase(s) ==
    [i \in 1..Len(s) |->
        IF \E k \in 1..Len(UpperLetters) : UpperLetters[k] = s[i]
        THEN LowerLetters[CHOOSE k \in 1..Len(UpperLetters) : UpperLetters[k] = s[i]]
        ELSE s[i]]

(* String.prototype.startsWith *)
startsWith(s, p) == Len(p) <= Len(s) /\ SubSeq(s, 1, Len(p)) = p

(* String.prototype.includes *)
includes(s, sub) ==
    \E i \in 0..(Len(s) - Len(sub)) : SubSeq(s, i + 1, i + Len(sub)) = sub

(* s.split('-')[0]: what stands before the first hyphen. *)
splitFirst(s) ==
    IF \E i \in 1..Len(s) : s[i] = "-"
    THEN SubSeq(s, 1, (CHOOSE i \in 1..Len(s) :
                           s[i] = "-" /\ \A j \in 1..(i - 1) : s[j] # "-") - 1)
    ELSE s

(* Array.prototype.find, as the index of the element found (0: none):   *)
(* the least of `hits`, the indices whose element satisfies the         *)
(* callback.                                                            *)
find(hits) ==
    IF hits = {} THEN 0 ELSE CHOOSE i \in hits : \A j \in hits : i <= j

(* Array.prototype.filter, as the indices kept (`hits`), in order.      *)
filter(hits) ==
    [k \in 1..Cardinality(hits) |->
        CHOOSE i \in hits : Cardinality({j \in hits : j < i}) = k - 1]

(* null / undefined, and what `if (x)` takes for absent.               *)
Null == "null"
Truthy(x) == x # Null /\ x # ""
(* a ?? b *)
Coalesce(a, b) == IF a # Null THEN a ELSE b

FrFR == <<"f", "r", "-", "F", "R">>
FrCA == <<"f", "r", "-", "C", "A">>
EsMX == <<"e", "s", "-", "M", "X">>
EsES == <<"e", "s", "-", "E", "S">>
EnUS == <<"e", "n", "-", "U", "S">>
FilPH == <<"f", "i", "l", "-", "P", "H">>
FiFI == <<"f", "i", "-", "F", "I">>
EsMXUpper == <<"E", "S", "-", "M", "X">>
CaES == <<"c", "a", "-", "E", "S">>

(* ------------------------------------------------------------------ *)
(* The speech library: choice of a voice                               *)
(* ------------------------------------------------------------------ *)
(* A voice is [voiceURI, lang, name]; a choice is the index of the      *)
(* voice in the list it was chosen from, NoVoice for undefined / null.  *)
NoVoice == 0

(* norm of tts.ts *)
norm(s) == toLowerCase(s)

PreferredBrands == <<<<"g", "o", "o", "g", "l", "e">>,
                     <<"m", "i", "c", "r", "o", "s", "o", "f", "t">>,
                     <<"n", "a", "t", "u", "r", "a", "l">>,
                     <<"n", "e", "u", "r">>,
                     <<"o", "n", "l", "i", "n", "e">>>>

(* Mutant: pickVoice without its step on requestedURI. *)
pickVoice_NoForced(voices, requestedURI, lang) ==
    LET target == norm(lang)
        prefix == splitFirst(target)
        exactLang == find({i \in DOMAIN voices : norm(voices[i].lang) = target})
        byPrefix == find({i \in DOMAIN voices : startsWith(norm(voices[i].lang), prefix)})
    IN  IF Len(voices) = 0 THEN NoVoice
        ELSE IF exactLang # 0 THEN exactLang
        ELSE IF byPrefix # 0 THEN byPrefix
        ELSE 1

(* pickVoice of tts.ts (first draft). *)
pickVoice(voices, requestedURI, lang) ==
    LET exact == find({i \in DOMAIN voices : voices[i].voiceURI = requestedURI})
        target == norm(lang)
        prefix == splitFirst(target)
        exactLang == find({i \in DOMAIN voices : norm(voices[i].lang) = target})
        byPrefix == find({i \in DOMAIN voices : startsWith(norm(voices[i].lang), prefix)})
        withPrefix == filter({i \in DOMAIN voices : startsWith(norm(voices[i].lang), prefix)})
        best == find({n \in DOMAIN withPrefix :
                         \E k \in 1..Len(PreferredBrands) :
                             includes(norm(voices[withPrefix[n]].name), PreferredBrands[k])})
    IN  IF Len(voices) = 0 THEN NoVoice
        ELSE IF Truthy(requestedURI) /\ exact # 0 THEN exact
        ELSE IF exactLang # 0 THEN exactLang
        ELSE IF byPrefix # 0 THEN byPrefix
        ELSE IF Len(withPrefix) # 0
             THEN (IF best # 0 THEN withPrefix[best] ELSE withPrefix[1])
        ELSE 1

(* pickBestVoice of tts.ts (second draft): it takes no voiceURI. *)
pickBestVoiceTts2(lang, voices) ==
    LET preferredLocales == IF startsWith(lang, <<"f", "r">>)
                            THEN <<FrFR, <<"f", "r">>>>
                            ELSE <<EsMX, EsES, <<"e", "s">>>>
        hit(pref) == find({i \in DOMAIN voices :
                              startsWith(toLowerCase(voices[i].lang), toLowerCase(pref))})
        firstPref == find({n \in DOMAIN preferredLocales : hit(preferredLocales[n]) # 0})
        generic == find({i \in DOMAIN voices :
                            includes(toLowerCase(voices[i].lang),
                                     toLowerCase(splitFirst(lang)))})
    IN  IF firstPref # 0 THEN hit(preferredLocales[firstPref])
        ELSE IF generic # 0 THEN generic
        ELSE IF Len(voices) > 0 THEN 1
        ELSE NoVoice

MicrosoftOrGoogle == <<<<"m", "i", "c", "r", "o", "s", "o", "f", "t">>,
                       <<"g", "o", "o", "g", "l", "e">>>>

(* Mutant: pickBestVoice of part_001 reading the module variable when   *)
(* it is given no identifier.                                           *)
pickBestVoicePart1_ReadsModule(voices, lang, voiceURI) ==
    LET normLang == toLowerCase(lang)
        uri == Coalesce(voiceURI, memPreferred)
        exact == find({i \in DOMAIN voices : voices[i].voiceURI = uri})
        exactLang == find({i \in DOMAIN voices : toLowerCase(voices[i].lang) = normLang})
        startsLang == find({i \in DOMAIN voices : startsWith(toLowerCase(voices[i].lang), splitFirst(normLang))})
    IN  IF Truthy(uri) /\ exact # 0 THEN exact
        ELSE IF exactLang # 0 THEN exactLang
        ELSE IF startsLang # 0 THEN startsLang
        ELSE IF Len(voices) > 0 THEN 1
        ELSE NoVoice

(* pickBestVoice of part_001. *)
pickBestVoicePart1(voices, lang, voiceURI) ==
    LET normLang == toLowerCase(lang)
        exact == find({i \in DOMAIN voices : voices[i].voiceURI = voiceURI})
        exactLang == find({i \in DOMAIN voices : toLowerCase(voices[i].lang) = normLang})
        startsLang == find({i \in DOMAIN voices : startsWith(toLowerCase(voices[i].lang), splitFirst(normLang))})
        goodByName == find({i \in DOMAIN voices :
                               /\ startsWith(toLowerCase(voices[i].lang), splitFirst(normLang))
                               /\ \E k \in 1..Len(MicrosoftOrGoogle) :
                                      includes(toLowerCase(voices[i].name), MicrosoftOrGoogle[k])})
    IN  IF Truthy(voiceURI) /\ exact # 0 THEN exact
        ELSE IF exactLang # 0 THEN exactLang
        ELSE IF startsLang # 0 THEN startsLang
        ELSE IF goodByName # 0 THEN goodByName
        ELSE IF Len(voices) > 0 THEN 1
        ELSE NoVoice

(* The voice a draft of the library chooses for a locale and a forced   *)
(* identifier (Null: none given).  The second draft of tts.ts has no    *)
(* parameter for the identifier and its speak reads none.               *)
selectVoice(l, voices, lang, forced) ==
    IF l = "tts1" THEN pickVoice(voices, forced, lang)
    ELSE IF l = "tts2" THEN pickBestVoiceTts2(lang, voices)
    ELSE pickBestVoicePart1(voices, lang, forced)

(* ------------------------------------------------------------------ *)
(* The speech library: the stored preference                           *)
(* ------------------------------------------------------------------ *)
(* The durable store is reachable (storeOk) or every access to it       *)
(* throws; `store` is the identifier under the library's key (Null:     *)
(* none).  Each function gives the store it leaves, the value it        *)
(* returns and whether it threw into its caller.                        *)

(* Mutant: getPreferredVoiceURI without its try / catch. *)
getPreferredVoiceURI_NoCatch(ok, st) ==
    [value |-> IF ok THEN st ELSE Null, threw |-> ~ok]

(* getPreferredVoiceURI of tts.ts and of part_001 (the same body). *)
getPreferredVoiceURI(ok, st) ==
    [value |-> IF ok THEN st ELSE Null, threw |-> FALSE]

(* Mutant: setPreferredVoiceURI that keeps an identifier already       *)
(* stored.                                                              *)
setPreferredVoiceURITts1_FirstWins(ok, st, mem, uri) ==
    [store |-> IF ok /\ st = Null THEN uri ELSE st, mem |-> mem, threw |-> FALSE]

(* setPreferredVoiceURI of tts.ts. *)
setPreferredVoiceURITts1(ok, st, mem, uri) ==
    [store |-> IF ok THEN uri ELSE st, mem |-> mem, threw |-> FALSE]

(* setPreferredVoiceURI of part_001: the module variable is set before  *)
(* the store is tried.                                                  *)
setPreferredVoiceURIPart1(ok, st, mem, uri) ==
    [store |-> IF ok THEN (IF Truthy(uri) THEN uri ELSE Null) ELSE st,
     mem |-> uri,
     threw |-> FALSE]

(* ------------------------------------------------------------------ *)
(* The speech library: waiting for the voice list                      *)
(* ------------------------------------------------------------------ *)
(* The host: no window at all, a window without speechSynthesis, or a   *)
(* window with it.                                                      *)
Hosts == {"none", "noSynth", "ok"}

PollMs == 60
WaitForVoicesMs == 2000
GetVoicesSafeMs == 800
ListVoicesMs == 500
NoTimer == 0 - 1

(* listVoices of tts.ts: the list the platform has now. *)
listVoices(h, avail) == IF h = "ok" THEN avail ELSE <<>>

(* The start of a wait: it is over at once with a list, it throws, or   *)
(* it is left pending with a timer due and, possibly, its callback      *)
(* stored in synth.onvoiceschanged.                                     *)
Resolved(v) == [outcome |-> "resolved", voices |-> v, due |-> NoTimer, setsHandler |-> FALSE]
Pending(due, setsHandler) ==
    [outcome |-> "pending", voices |-> <<>>, due |-> due, setsHandler |-> setsHandler]
Thrown == [outcome |-> "throws", voices |-> <<>>, due |-> NoTimer, setsHandler |-> FALSE]

(* waitForVoices of tts.ts, up to its first setTimeout. *)
waitForVoices(h, avail, t) ==
    IF Len(listVoices(h, avail)) # 0 THEN Resolved(listVoices(h, avail))
    ELSE IF h = "none" THEN Resolved(<<>>)
    ELSE Pending(t + PollMs, h = "ok")

(* getVoicesSafe of tts.ts (second draft), up to its promise. *)
getVoicesSafe(h, avail, t) ==
    IF h # "ok" THEN Resolved(<<>>)
    ELSE IF Len(avail) > 0 THEN Resolved(avail)
    ELSE Pending(t + GetVoicesSafeMs, TRUE)

(* listVoices of part_001, up to its promise: synth.getVoices() is      *)
(* called on whatever window.speechSynthesis is.                        *)
listVoicesPart1(h, avail, t) ==
    IF h = "none" THEN Resolved(<<>>)
    ELSE IF h = "noSynth" THEN Thrown
    ELSE IF Len(avail) > 0 THEN Resolved(avail)
    ELSE Pending(t + ListVoicesMs, TRUE)

fetchVoices(l, h, avail, t) ==
    IF l = "tts1" THEN waitForVoices(h, avail, t)
    ELSE IF l = "tts2" THEN getVoicesSafe(h, avail, t)
    ELSE listVoicesPart1(h, avail, t)

(* `tick` of waitForVoices, run by its setTimeout for a call that began *)
(* at `start`.                                                          *)
tick(h, avail, start, t) ==
    IF Len(listVoices(h, avail)) # 0 THEN Resolved(listVoices(h, avail))
    ELSE IF t - start > WaitForVoicesMs THEN Resolved(listVoices(h, avail))
    ELSE Pending(t + PollMs, FALSE)

(* The timer callback of a pending wait. *)
TimerCallback(l, h, avail, start, t) ==
    IF l = "tts1" THEN tick(h, avail, start, t) ELSE Resolved(avail)

(* onvoiceschanged after the event: every draft resolves its call with  *)
(* the list of that moment; only part_001 takes its callback off.       *)
HandlerAfterEvent(l, owner) == IF l = "part1" THEN 0 ELSE owner

(* ------------------------------------------------------------------ *)
(* The speech library: speak                                           *)
(* ------------------------------------------------------------------ *)
NoLang == <<"undefined">>
(* The lang of an utterance whose call gave none. *)
DefaultLang(l) == IF l = "tts2" THEN EsES ELSE FrFR
Utterance(id, text, lang, voice) ==
    [call |-> id, text |-> text, lang |-> lang, voice |-> voice]
VoiceURIOf(voices, i) == IF i = NoVoice THEN Null ELSE voices[i].voiceURI

(* The synchronous start of speak: `flow` is "return" (the guard),      *)
(* "reject" (cancel threw out of the async function) or "await" (the    *)
(* voice list is awaited); cancelCalled / cancelled: synth.cancel() was *)
(* called / emptied the queue; lang and uri: what the draft fixed       *)
(* before the await.                                                    *)
Begun(flow, cancelCalled, cancelled, lang, uri) ==
    [flow |-> flow, cancelCalled |-> cancelCalled, cancelled |-> cancelled,
     lang |-> lang, uri |-> uri]

(* speak of tts.ts (first draft), lines 120-128. *)
speakTts1Begin(h, cancelThrows, opts, ok, st, mem) ==
    IF h # "ok" THEN Begun("return", FALSE, FALSE, NoLang, Null)
    ELSE Begun("await", TRUE, ~cancelThrows, NoLang, Null)

(* speak of tts.ts (second draft), lines 205-216. *)
speakTts2Begin(h, cancelThrows, opts, ok, st, mem) ==
    LET lang == IF opts.lang = NoLang THEN EsES ELSE opts.lang
    IN  IF h # "ok" THEN Begun("return", FALSE, FALSE, lang, Null)
        ELSE IF cancelThrows THEN Begun("reject", TRUE, FALSE, lang, Null)
        ELSE Begun("await", TRUE, TRUE, lang, Null)

(* speak of part_001, lines 76-91. *)
speakPart1Begin(h, cancelThrows, opts, ok, st, mem) ==
    LET lang == IF opts.lang = NoLang \/ opts.lang = <<>> THEN FrFR ELSE opts.lang
        stored == getPreferredVoiceURI(ok, st).value
        uriToUse == Coalesce(opts.voiceURI, Coalesce(mem, stored))
    IN  IF h # "ok" THEN Begun("return", FALSE, FALSE, lang, Null)
        ELSE IF cancelThrows THEN Begun("reject", TRUE, FALSE, lang, Null)
        ELSE Begun("await", TRUE, TRUE, lang, uriToUse)

speakBegin(l, h, cancelThrows, opts, ok, st, mem) ==
    IF l = "tts1" THEN speakTts1Begin(h, cancelThrows, opts, ok, st, mem)
    ELSE IF l = "tts2" THEN speakTts2Begin(h, cancelThrows, opts, ok, st, mem)
    ELSE speakPart1Begin(h, cancelThrows, opts, ok, st, mem)

(* What follows the await: the utterance, whether synth.speak took it   *)
(* and how the promise of speak ends.                                   *)
Ended(status, utter, taken) == [status |-> status, utter |-> utter, taken |-> taken]

(* speak of tts.ts (first draft), lines 132-148. *)
speakTts1End(c, voices, speakThrows, ok, st) ==
    LET lang == IF c.opts.lang = NoLang THEN FrFR ELSE c.opts.lang
        requestedURI == Coalesce(c.opts.voiceURI, getPreferredVoiceURI(ok, st).value)
        voice == pickVoice(voices, requestedURI, lang)
    IN  Ended("fulfilled", Utterance(c.id, c.text, lang, VoiceURIOf(voices, voice)),
              ~speakThrows)

(* speak of tts.ts (second draft), lines 218-222. *)
speakTts2End(c, voices, speakThrows, ok, st) ==
    LET best == pickBestVoiceTts2(c.lang, voices)
    IN  Ended(IF speakThrows THEN "rejected" ELSE "fulfilled",
              Utterance(c.id, c.text, c.lang, VoiceURIOf(voices, best)),
              ~speakThrows)

(* Mutant: speak of part_001 gives the platform nothing when no voice   *)
(* was chosen.                                                          *)
speakPart1End_OnlyWithVoice(c, voices, speakThrows, ok, st) ==
    LET chosen == pickBestVoicePart1(voices, c.lang, c.uri)
    IN  Ended(IF speakThrows THEN "rejected" ELSE "fulfilled",
              Utterance(c.id, c.text, c.lang, VoiceURIOf(voices, chosen)),
              ~speakThrows /\ chosen # NoVoice)

(* speak of part_001, lines 93-98. *)
speakPart1End(c, voices, speakThrows, ok, st) ==
    LET chosen == pickBestVoicePart1(voices, c.lang, c.uri)
    IN  Ended(IF speakThrows THEN "rejected" ELSE "fulfilled",
              Utterance(c.id, c.text, c.lang, VoiceURIOf(voices, chosen)),
              ~speakThrows)

speakEnd(l, c, voices, speakThrows, ok, st) ==
    IF l = "tts1" THEN speakTts1End(c, voices, speakThrows, ok, st)
    ELSE IF l = "tts2" THEN speakTts2End(c, voices, speakThrows, ok, st)
    ELSE speakPart1End(c, voices, speakThrows, ok, st)

(* ------------------------------------------------------------------ *)
(* The speech library as the component sees it                         *)
(* ------------------------------------------------------------------ *)
(* What a call of speak can meet: no speech capability, a voice list    *)
(* that is empty, still loading or loaded, platform calls that throw.   *)
SpeechEnvs == {"absent", "empty", "loading", "loaded", "failing"}
NotCalled == "notCalled"

(* Mutant: speak is an ordinary function, so what goes wrong inside it  *)
(* is thrown into the handler that called it.                           *)
SpeakCallThrows_Sync(env) == env \in {"absent", "failing"}

(* speak is declared `async` in the three drafts of the library: the    *)
(* call returns a promise whatever happens inside, and no caller awaits *)
(* it or reads its result.                                              *)
SpeakCallThrows(env) == FALSE

(* What a handler or callback leaves behind: its state updates and its  *)
(* speak calls, unless a speak call threw before they were committed.   *)
Delivered(env, before, r) ==
    IF r.said # <<>> /\ SpeakCallThrows(env)
    THEN [timer |-> before, said |-> <<>>]
    ELSE r

(* The end of a step: the speech environment its speak calls met (any), *)
(* the component state and the history.                                 *)
Conclude(op, r) ==
    \E env \in (IF r.said = <<>> THEN {NotCalled} ELSE SpeechEnvs) :
        LET d == Delivered(env, timer, r)
        IN  /\ timer' = d.timer
            /\ speechEnv' = env
            /\ Record(op, d.timer, d.said)
            /\ UNCHANGED <<ttsVars, voiceVars>>

(* ------------------------------------------------------------------ *)
(* Voices and the library at rest                                      *)
(* ------------------------------------------------------------------ *)
Voice(uri, lang, name) == [voiceURI |-> uri, lang |-> lang, name |-> name]
Amelie == Voice("amelie", FrFR, <<"A", "m", "e", "l", "i", "e">>)
Paulina == Voice("paulina", EsMX, <<"P", "a", "u", "l", "i", "n", "a">>)
GoogleFrCA == Voice("google-fr-ca", FrCA, <<"G", "o", "o", "g", "l", "e">>)
Samantha == Voice("samantha", EnUS, <<"S", "a", "m", "a", "n", "t", "h", "a">>)
Monica == Voice("monica", EsES, <<"M", "o", "n", "i", "c", "a">>)
Chantal == Voice("chantal", FrCA, <<"C", "h", "a", "n", "t", "a", "l">>)
Rosa == Voice("rosa", FilPH, <<"R", "o", "s", "a">>)
Montse == Voice("montse", CaES, <<"M", "o", "n", "t", "s", "e">>)
VoicePool == {Amelie, Paulina, GoogleFrCA, Monica, Chantal, Rosa, Montse}

(* The list the platform has once its voices are loaded. *)
LoadedCatalog == <<Samantha, Amelie, Paulina>>

(* The last preference call: which, its argument or result, whether it  *)
(* threw, and the identifier last given to setPreferredVoiceURI since   *)
(* the page was loaded (Null: none), and the identifier last written    *)
(* under the library's key, in this session or before it.               *)
NoPref == [op |-> "none", value |-> Null, threw |-> FALSE, given |-> Null,
           written |-> Null]
NoSelection == [lib |-> "tts1", voices |-> <<>>, lang |-> FrFR, forced |-> Null,
                picked |-> NoVoice, done |-> FALSE,
                disturbed |-> FALSE, repicked |-> NoVoice, redone |-> FALSE]

(* No library call was made and none is. *)
TtsQuiet ==
    /\ lib = "tts1"
    /\ host = "ok"
    /\ synthFails = "no"
    /\ storeOk = TRUE
    /\ store = Null
    /\ memPreferred = Null
    /\ lastPref = NoPref
    /\ prefWrites = 0
    /\ available = <<>>
    /\ loadedAt = NoTimer
    /\ handler = 0
    /\ calls = <<>>
    /\ queue = <<>>
    /\ handed = <<>>
    /\ platformCalls = 0
    /\ now = 0

(* No remaining time was put in words. *)
NoPhrase == [draft |-> "page", seconds |-> 0, lang |-> "es", words |-> <<>>, done |-> FALSE]

(* No second Timer instance is looked at. *)
NoPair == [draft |-> "page", phase |-> "setup", timers |-> <<>>, before |-> <<>>,
           actor |-> 0, op |-> "mount", said |-> <<>>]

(* No team is looked at. *)
NoTeams == [draft |-> "page", phase |-> "setup", teamA |-> <<>>, teamB |-> <<>>,
            timers |-> <<>>, before |-> <<>>, op |-> "mount", last |-> <<>>,
            ticks |-> 0]

VoiceQuiet == sel = NoSelection /\ phrase = NoPhrase /\ pair = NoPair /\ teams = NoTeams

(* The page with no timer event: a development timer left alone. *)
TimerQuiet ==
    /\ draft = "page"
    /\ phase = "setup"
    /\ timer = NewTimer("development", NormalSeconds, FALSE, "es-MX")
    /\ lastOp = "mount"
    /\ prev = timer
    /\ emitted = <<>>
    /\ announcedCount = [t30 |-> 0, t10 |-> 0]
    /\ runTicks = NoRun
    /\ runLog = <<>>
    /\ resets = 0
    /\ frozenAt = NotFrozen
    /\ speechEnv = NotCalled

(* ------------------------------------------------------------------ *)
(* Initial state: the page just mounted, in the setup phase            *)
(* ------------------------------------------------------------------ *)
InitialLang(d) == IF d = "page" THEN "es-MX" ELSE "fr-FR"

Init ==
    /\ draft \in Drafts
    /\ phase = "setup"
    /\ timer \in {NewTimer("development", NormalSeconds, FALSE, InitialLang(draft))}
                 \cup {NewTimer("intro", n, FALSE, InitialLang(draft)) :
                          n \in {IntroSeconds} \cup OtherTotals}
    /\ lastOp = "mount"
    /\ prev = timer
    /\ emitted = <<>>
    /\ announcedCount = [t30 |-> 0, t10 |-> 0]
    /\ runTicks = NoRun
    /\ runLog = <<>>
    /\ resets = 0
    /\ frozenAt = NotFrozen
    /\ speechEnv = NotCalled
    /\ TtsQuiet
    /\ VoiceQuiet

(* ------------------------------------------------------------------ *)
(* Operations                                                          *)
(* ------------------------------------------------------------------ *)
(* A click meant as Start: it reaches toggleRunning only if the button *)
(* reads Start and is not disabled.                                    *)
Start ==
    /\ Visible(phase, timer)
    /\ LET r == IF ButtonLabel(timer) = "Start" /\ ~ButtonDisabled(timer)
                THEN toggleRunning(draft, timer)
                ELSE [timer |-> timer, said |-> <<>>]
           e == Effects(draft, timer, r.timer)
       IN  Conclude("start", [timer |-> e.timer, said |-> r.said \o e.said])
    /\ UNCHANGED <<draft, phase>>

(* A click meant as Pause: it reaches toggleRunning only if the button *)
(* reads Pause and is not disabled.                                    *)
Pause ==
    /\ Visible(phase, timer)
    /\ LET r == IF ButtonLabel(timer) = "Pause" /\ ~ButtonDisabled(timer)
                THEN toggleRunning(draft, timer)
                ELSE [timer |-> timer, said |-> <<>>]
           e == Effects(draft, timer, r.timer)
       IN  Conclude("pause", [timer |-> e.timer, said |-> r.said \o e.said])
    /\ UNCHANGED <<draft, phase>>

(* A click on the reset button. *)
Reset ==
    /\ Visible(phase, timer)
    /\ LET e == Effects(draft, timer, ResetClick(draft, timer))
       IN  Conclude("reset", [timer |-> e.timer, said |-> e.said])
    /\ UNCHANGED <<draft, phase>>

(* A live interval fires its callback. *)
Tick ==
    /\ \E id \in timer.live :
          LET r == TickUpdate(draft, timer)
              e == Effects(draft, timer, r.timer)
          IN  Conclude("tick", [timer |-> e.timer, said |-> r.said \o e.said])
    /\ UNCHANGED <<draft, phase>>

(* A click on a phase tab: the timer's isActive prop follows the phase. *)
SetPhase ==
    /\ \E p \in Phases :
          LET e == Effects(draft, timer, [timer EXCEPT !.isActive = (p = timer.target)])
          IN  /\ phase' = p
              /\ Conclude("setPhase", [timer |-> e.timer, said |-> e.said])
    /\ UNCHANGED draft

(* The voice language selector of part_000. *)
SetVoiceLang ==
    /\ draft = "part0"
    /\ \E l \in VoiceLangs :
          LET e == Effects(draft, timer, [timer EXCEPT !.voiceLang = l])
          IN  Conclude("setVoiceLang", [timer |-> e.timer, said |-> e.said])
    /\ UNCHANGED <<draft, phase>>

(* setSpecial on the setup panel gives or takes the star of this timer's *)
(* debater: the development timer is rendered with the new               *)
(* initialSeconds and label, and the effect on initialSeconds runs.      *)
SetSpecial ==
    /\ phase = "setup"
    /\ timer.target = "development"
    /\ \E b \in BOOLEAN :
          IF b = timer.special
          THEN Conclude("setSpecialSame", [timer |-> timer, said |-> <<>>])
          ELSE LET t == [timer EXCEPT !.special = b,
                                      !.initialSeconds =
                                          IF b THEN SpecialSeconds ELSE NormalSeconds]
                   e == InitialSecondsEffect(draft, t)
               IN  Conclude("setSpecial", [timer |-> e.timer, said |-> e.said])
    /\ UNCHANGED <<draft, phase>>

Next ==
    \/ Start
    \/ Pause
    \/ Reset
    \/ Tick
    \/ SetPhase
    \/ SetVoiceLang
    \/ SetSpecial

Spec == Init /\ [][Next]_vars

(* ------------------------------------------------------------------ *)
(* The choice of a voice, applied once to drawn inputs                 *)
(* ------------------------------------------------------------------ *)
MaxCatalog == 3

(* Lists of at most MaxCatalog different voices of the pool. *)
Catalogs ==
    {c \in UNION {[1..k -> VoicePool] : k \in 0..MaxCatalog} :
        \A i, j \in 1..Len(c) : i # j => c[i] # c[j]}

(* The locales asked for: the three of SpeakOptions and, where lang is  *)
(* a plain string, one in capitals and one whose first subtag begins    *)
(* the first subtag of a pool voice.                                    *)
RequestedLangs(l) ==
    IF l = "tts2" THEN {FrFR, EsMX, EsES}
    ELSE {FrFR, EsMX, EsES, EsMXUpper, FiFI}

(* Identifiers a caller may force: none, the empty string, identifiers  *)
(* of pool voices, an identifier no voice has.  The second draft of     *)
(* tts.ts takes none.                                                   *)
ForcedIds(l) ==
    IF l = "tts2" THEN {Null}
    ELSE {Null, "", "amelie", "paulina", "google-fr-ca", "ghost"}

InitVoice ==
    /\ TimerQuiet
    /\ TtsQuiet
    /\ phrase = NoPhrase
    /\ pair = NoPair
    /\ teams = NoTeams
    /\ \E l \in Libs, c \in Catalogs :
          \E lang \in RequestedLangs(l), f \in ForcedIds(l) :
              sel = [lib |-> l, voices |-> c, lang |-> lang, forced |-> f,
                     picked |-> NoVoice, done |-> FALSE,
                     disturbed |-> FALSE, repicked |-> NoVoice, redone |-> FALSE]

Select ==
    /\ ~sel.done
    /\ sel' = [sel EXCEPT !.picked = selectVoice(sel.lib, sel.voices, sel.lang, sel.forced),
                          !.done = TRUE]
    /\ UNCHANGED <<timerVars, ttsVars, phrase, pair, teams>>

(* Between two applications the rest of the page goes on: a voice is    *)
(* preferred (the store and, in part_001, the module variable change)   *)
(* and another timer state is on the page.                              *)
PreferredMeanwhile == "amelie"

Disturb ==
    /\ sel.done
    /\ ~sel.disturbed
    /\ LET w == IF sel.lib = "part1"
                THEN setPreferredVoiceURIPart1(storeOk, store, memPreferred, PreferredMeanwhile)
                ELSE setPreferredVoiceURITts1(storeOk, store, memPreferred, PreferredMeanwhile)
       IN  /\ store' = w.store
           /\ memPreferred' = w.mem
    /\ timer' = NewTimer("intro", IntroSeconds, TRUE, "fr-FR")
    /\ sel' = [sel EXCEPT !.disturbed = TRUE]
    /\ UNCHANGED <<draft, phase, lastOp, prev, emitted, announcedCount, runTicks,
                   runLog, resets, frozenAt, speechEnv>>
    /\ UNCHANGED <<lib, host, synthFails, storeOk, lastPref, prefWrites, available,
                   loadedAt, handler, calls, queue, handed, platformCalls, now>>
    /\ UNCHANGED <<phrase, pair, teams>>

(* The same choice asked again, of the same list, locale and            *)
(* identifier.                                                          *)
Reselect ==
    /\ sel.disturbed
    /\ ~sel.redone
    /\ sel' = [sel EXCEPT !.repicked = selectVoice(sel.lib, sel.voices, sel.lang, sel.forced),
                          !.redone = TRUE]
    /\ UNCHANGED <<timerVars, ttsVars, phrase, pair, teams>>

NextVoice ==
    \/ Select
    \/ Disturb
    \/ Reselect

SpecVoice == InitVoice /\ [][NextVoice]_vars

(* ------------------------------------------------------------------ *)
(* Two Timer instances of one page                                     *)
(* ------------------------------------------------------------------ *)
(* The introduction panel mounts one Timer per debater, all with the    *)
(* same isActive (of MaxPairTotal seconds here, or, the first, of one   *)
(* second above the 30); `pair` holds two of them, the one an           *)
(* operation acted on (0: both, by a phase tab), the operation, the two *)
(* before it and the speak calls it made.                               *)
MaxPairTotal == 11
PairPhases == {"setup", "intro"}

(* Mutant: the announced flags are kept in one place for all the        *)
(* instances.                                                           *)
Bystander_SharedRefs(t, acted) ==
    [t EXCEPT !.warned30 = acted.warned30, !.warned10 = acted.warned10]

(* The instance `t` after an event of another instance, which left that *)
(* one as `acted`: timeLeft, running and the refs are useState / useRef *)
(* of each instance, an event of one re-renders that one only.          *)
Bystander(t, acted) == t

InitPair ==
    /\ TimerQuiet
    /\ TtsQuiet
    /\ sel = NoSelection
    /\ phrase = NoPhrase
    /\ teams = NoTeams
    /\ \E d \in Drafts, n \in {MaxPairTotal, Threshold30 + 1} :
          LET t == <<NewTimer("intro", n, FALSE, InitialLang(d)),
                     NewTimer("intro", MaxPairTotal, FALSE, InitialLang(d))>>
          IN  pair = [draft |-> d, phase |-> "setup", timers |-> t,
                      before |-> t, actor |-> 0, op |-> "mount", said |-> <<>>]

(* The step of instance i that gives r, beside the other instance. *)
PairConclude(i, op, r) ==
    /\ pair' = [pair EXCEPT !.timers = [j \in 1..2 |->
                                            IF j = i THEN r.timer
                                            ELSE Bystander(pair.timers[j], r.timer)],
                            !.before = pair.timers,
                            !.actor = i,
                            !.op = op,
                            !.said = r.said]
    /\ UNCHANGED <<timerVars, ttsVars, sel, phrase, teams>>

PairStart(i) ==
    LET t == pair.timers[i] IN
    /\ Visible(pair.phase, t)
    /\ ButtonLabel(t) = "Start"
    /\ ~ButtonDisabled(t)
    /\ LET r == toggleRunning(pair.draft, t)
           e == Effects(pair.draft, t, r.timer)
       IN  PairConclude(i, "start", [timer |-> e.timer, said |-> r.said \o e.said])

PairPause(i) ==
    LET t == pair.timers[i] IN
    /\ Visible(pair.phase, t)
    /\ ButtonLabel(t) = "Pause"
    /\ ~ButtonDisabled(t)
    /\ LET r == toggleRunning(pair.draft, t)
           e == Effects(pair.draft, t, r.timer)
       IN  PairConclude(i, "pause", [timer |-> e.timer, said |-> r.said \o e.said])

PairReset(i) ==
    LET t == pair.timers[i] IN
    /\ Visible(pair.phase, t)
    /\ LET e == Effects(pair.draft, t, ResetClick(pair.draft, t))
       IN  PairConclude(i, "reset", [timer |-> e.timer, said |-> e.said])

PairTick(i) ==
    LET t == pair.timers[i] IN
    /\ t.live # {}
    /\ LET r == TickUpdate(pair.draft, t)
           e == Effects(pair.draft, t, r.timer)
       IN  PairConclude(i, "tick", [timer |-> e.timer, said |-> r.said \o e.said])

(* A click on a phase tab: the isActive prop of both follows the phase. *)
PairSetPhase ==
    /\ \E p \in PairPhases :
          LET e == [j \in 1..2 |->
                       Effects(pair.draft, pair.timers[j],
                               [pair.timers[j] EXCEPT !.isActive = (p = pair.timers[j].target)])]
          IN  pair' = [pair EXCEPT !.phase = p,
                                   !.timers = [j \in 1..2 |-> e[j].timer],
                                   !.before = pair.timers,
                                   !.actor = 0,
                                   !.op = "setPhase",
                                   !.said = e[1].said \o e[2].said]
    /\ UNCHANGED <<timerVars, ttsVars, sel, phrase, teams>>

NextPair ==
    \/ \E i \in 1..2 : PairStart(i)
    \/ \E i \in 1..2 : PairPause(i)
    \/ \E i \in 1..2 : PairReset(i)
    \/ \E i \in 1..2 : PairTick(i)
    \/ PairSetPhase

SpecPair == InitPair /\ [][NextPair]_vars

(* ------------------------------------------------------------------ *)
(* The debaters of the page and their development timers               *)
(* ------------------------------------------------------------------ *)
(* The page holds team A and team B (MaxTeamSize debaters in A and one  *)
(* in B here) and keeps one development Timer mounted per debater,      *)
(* keyed by the debater's id.  `teams` holds the two lists, the timers  *)
(* by id, the last operation, the timers before it when it was a        *)
(* setSpecial (the timers themselves otherwise), the debater of the     *)
(* last setSpecial (<<>>: none) and the ticks so far.                   *)
MaxTeamSize == 2
MaxTeamTicks == 1
TeamNames == {"A", "B"}
TeamPhases == {"setup", "development"}
TeamIndices(team) == IF team = "A" THEN 1..MaxTeamSize ELSE {1}
MemberIds == UNION {{<<team, i>> : i \in TeamIndices(team)} : team \in TeamNames}

(* useState of teamA / teamB: nobody is special. *)
InitialTeam(team) ==
    [i \in TeamIndices(team) |-> [id |-> <<team, i>>, team |-> team, isSpecial |-> FALSE]]

(* Mutant: setSpecial that marks its debater and leaves the other       *)
(* marks as they are.                                                   *)
setSpecial_KeepMarks(teamA, teamB, team, id) ==
    LET mark(list) == [i \in DOMAIN list |->
                          IF list[i].id = id THEN [list[i] EXCEPT !.isSpecial = TRUE]
                          ELSE list[i]]
    IN  IF team = "A" THEN [teamA |-> mark(teamA), teamB |-> teamB]
        ELSE [teamA |-> teamA, teamB |-> mark(teamB)]

(* setSpecial(team, id) of DebatePage: the lists it sets. *)
setSpecial(teamA, teamB, team, id) ==
    LET resetA == [i \in DOMAIN teamA |-> [teamA[i] EXCEPT !.isSpecial = FALSE]]
        resetB == [i \in DOMAIN teamB |-> [teamB[i] EXCEPT !.isSpecial = FALSE]]
        mark(list) == [i \in DOMAIN list |->
                          IF list[i].id = id THEN [list[i] EXCEPT !.isSpecial = TRUE]
                          ELSE list[i]]
    IN  IF team = "A" THEN [teamA |-> mark(resetA), teamB |-> resetB]
        ELSE [teamA |-> resetA, teamB |-> mark(resetB)]

(* The debater of an id in the two lists. *)
MemberOf(teamA, teamB, id) ==
    IF id[1] = "A" THEN teamA[id[2]] ELSE teamB[id[2]]

(* The development Timer of a debater rendered again after the lists    *)
(* were set: its props initialSeconds and label follow isSpecial; with  *)
(* the same props no effect of it runs, with others the effect on       *)
(* initialSeconds does.                                                 *)
RenderMember(d, t, member) ==
    LET n == [t EXCEPT !.special = member.isSpecial,
                       !.initialSeconds = IF member.isSpecial THEN SpecialSeconds
                                          ELSE NormalSeconds]
    IN  IF n = t THEN t ELSE InitialSecondsEffect(d, n).timer

InitTeams ==
    /\ TimerQuiet
    /\ TtsQuiet
    /\ sel = NoSelection
    /\ phrase = NoPhrase
    /\ pair = NoPair
    /\ \E d \in Drafts :
          LET t == [m \in MemberIds |->
                       NewTimer("development", NormalSeconds, FALSE, InitialLang(d))]
          IN  teams = [draft |-> d, phase |-> "setup",
                       teamA |-> InitialTeam("A"), teamB |-> InitialTeam("B"),
                       timers |-> t, before |-> t, op |-> "mount", last |-> <<>>,
                       ticks |-> 0]

(* A click on the star of a debater, on the setup panel. *)
TeamsSetSpecial ==
    /\ teams.phase = "setup"
    /\ \E id \in MemberIds :
          LET r == setSpecial(teams.teamA, teams.teamB, id[1], id)
          IN  teams' = [teams EXCEPT
                           !.teamA = r.teamA,
                           !.teamB = r.teamB,
                           !.timers = [m \in MemberIds |->
                                          RenderMember(teams.draft, teams.timers[m],
                                                       MemberOf(r.teamA, r.teamB, m))],
                           !.before = teams.timers,
                           !.op = "setSpecial",
                           !.last = id]
    /\ UNCHANGED <<timerVars, ttsVars, sel, phrase, pair>>

(* An event of the development Timer of one debater that leaves it as t. *)
TeamsConclude(id, op, t, ticked) ==
    /\ LET after == [m \in MemberIds |->
                        IF m = id THEN t ELSE Bystander(teams.timers[m], t)]
       IN  teams' = [teams EXCEPT !.timers = after,
                                  !.before = after,
                                  !.op = op,
                                  !.ticks = @ + ticked]
    /\ UNCHANGED <<timerVars, ttsVars, sel, phrase, pair>>

TeamsStart(id) ==
    LET t == teams.timers[id] IN
    /\ Visible(teams.phase, t)
    /\ ButtonLabel(t) = "Start"
    /\ ~ButtonDisabled(t)
    /\ TeamsConclude(id, "timer",
                     Effects(teams.draft, t, toggleRunning(teams.draft, t).timer).timer, 0)

TeamsTick(id) ==
    LET t == teams.timers[id] IN
    /\ teams.ticks < MaxTeamTicks
    /\ t.live # {}
    /\ TeamsConclude(id, "timer",
                     Effects(teams.draft, t, TickUpdate(teams.draft, t).timer).timer, 1)

(* A click on a phase tab: isActive of every development Timer follows. *)
TeamsSetPhase ==
    /\ \E p \in TeamPhases :
          LET after == [m \in MemberIds |->
                           Effects(teams.draft, teams.timers[m],
                                   [teams.timers[m] EXCEPT
                                       !.isActive = (p = teams.timers[m].target)]).timer]
          IN  teams' = [teams EXCEPT !.phase = p,
                                     !.timers = after,
                                     !.before = after,
                                     !.op = "setPhase"]
    /\ UNCHANGED <<timerVars, ttsVars, sel, phrase, pair>>

NextTeams ==
    \/ TeamsSetSpecial
    \/ \E id \in MemberIds : TeamsStart(id)
    \/ \E id \in MemberIds : TeamsTick(id)
    \/ TeamsSetPhase

SpecTeams == InitTeams /\ [][NextTeams]_vars

(* ------------------------------------------------------------------ *)
(* The text of a remaining time, applied once to drawn inputs          *)
(* ------------------------------------------------------------------ *)
(* The languages a draft's text function takes. *)
PhraseLangs(d) == IF d = "page" THEN {"fr", "es"} ELSE VoiceLangs

(* The words of a remaining time in a draft (page.tsx puts the label    *)
(* and "te quedan" in the text, part_000 adds them at the call).        *)
RemainingWords(d, seconds, lang) ==
    IF d = "page" THEN remainingSpeechText(seconds, lang) ELSE timeSpeech(seconds, lang)

InitPhrase ==
    /\ TimerQuiet
    /\ TtsQuiet
    /\ sel = NoSelection
    /\ pair = NoPair
    /\ teams = NoTeams
    /\ \E d \in Drafts, n \in 1..SpecialSeconds :
          \E lang \in PhraseLangs(d) :
              phrase = [draft |-> d, seconds |-> n, lang |-> lang, words |-> <<>>,
                        done |-> FALSE]

Phrase ==
    /\ ~phrase.done
    /\ phrase' = [phrase EXCEPT !.words = RemainingWords(phrase.draft, phrase.seconds, phrase.lang),
                                !.done = TRUE]
    /\ UNCHANGED <<timerVars, ttsVars, sel, pair, teams>>

NextPhrase == Phrase

SpecPhrase == InitPhrase /\ [][NextPhrase]_vars

(* ------------------------------------------------------------------ *)
(* The library at work: calls of speak and of the voice wait, the      *)
(* platform's voice list, its events and timers                        *)
(* ------------------------------------------------------------------ *)
MaxCalls == 2
MaxPrefCalls == 2

(* Calls and the arrival of the voices come at any instant of the first *)
(* EarlyMs milliseconds, and at any later instant at which no call is   *)
(* waiting for the voice list.                                          *)
EarlyMs == 120

Texts == <<"uno", "dos", "tres", "cuatro">>
SynthFailures == {"no", "cancel", "speak"}

(* Options of a speak call: the timers of page.tsx give a lang, those   *)
(* of part_000 a lang and the voiceURI of the page (null or chosen).    *)
SpeakOptions(l) ==
    {[lang |-> NoLang, voiceURI |-> Null], [lang |-> EsMX, voiceURI |-> Null]}
    \cup (IF l = "tts2" THEN {} ELSE {[lang |-> FrFR, voiceURI |-> "paulina"]})

(* The library on a host that has the speech capability, whose calls do *)
(* not fail and whose store can be read.                                *)
InitTts ==
    /\ TimerQuiet
    /\ VoiceQuiet
    /\ lib \in Libs
    /\ host = "ok"
    /\ synthFails = "no"
    /\ storeOk = TRUE
    /\ store \in {Null, "samantha"}
    /\ memPreferred = Null
    /\ lastPref = [NoPref EXCEPT !.written = store]
    /\ prefWrites = 0
    /\ available \in {<<>>, LoadedCatalog}
    /\ loadedAt = (IF available = <<>> THEN NoTimer ELSE 0)
    /\ handler = 0
    /\ calls = <<>>
    /\ queue = <<>>
    /\ handed = <<>>
    /\ platformCalls = 0
    /\ now = 0

(* The library on any host: with or without the capability, with        *)
(* platform calls that throw or not, with a store that can be read or   *)
(* not; where there is a voice list it is there from the start.         *)
InitErr ==
    /\ TimerQuiet
    /\ VoiceQuiet
    /\ lib \in Libs
    /\ host \in Hosts
    /\ synthFails \in SynthFailures
    /\ storeOk \in BOOLEAN
    /\ store \in (IF storeOk THEN {Null, "samantha"} ELSE {"samantha"})
    /\ memPreferred = Null
    /\ lastPref = [NoPref EXCEPT !.written = store]
    /\ prefWrites = 0
    /\ available = (IF host = "ok" THEN LoadedCatalog ELSE <<>>)
    /\ loadedAt = (IF available = <<>> THEN NoTimer ELSE 0)
    /\ handler = 0
    /\ calls = <<>>
    /\ queue = <<>>
    /\ handed = <<>>
    /\ platformCalls = 0
    /\ now = 0

Waiting(id) == calls[id].status = "waiting"
Early == now <= EarlyMs \/ \A id \in 1..Len(calls) : ~Waiting(id)

(* The voice list a call waited for has come: a wait is fulfilled with  *)
(* it, a speak goes on to synth.speak.  `q` is the platform queue and   *)
(* `n` the number of platform calls before that.                        *)
Settle(c, voices, q, n, into) ==
    IF c.kind = "fetch"
    THEN /\ calls' = [into EXCEPT ![c.id] = [c EXCEPT !.status = "fulfilled",
                                                      !.voices = voices,
                                                      !.due = NoTimer]]
         /\ queue' = q
         /\ platformCalls' = n
         /\ handed' = handed
    ELSE LET e == speakEnd(lib, c, voices, synthFails = "speak", storeOk, store)
         IN  /\ calls' = [into EXCEPT ![c.id] = [c EXCEPT !.status = e.status,
                                                          !.voices = voices,
                                                          !.due = NoTimer]]
             /\ queue' = IF e.taken THEN Append(q, e.utter) ELSE q
             /\ handed' = IF e.taken THEN Append(handed, e.utter) ELSE handed
             /\ platformCalls' = n + 1

(* A call of speak(text, options).  A call is kept with its options,    *)
(* what the draft fixed before the await, its timer, the list it was    *)
(* resumed with and, for the properties, the identifier last given to   *)
(* setPreferredVoiceURI before it.                                      *)
CallSpeak ==
    /\ Len(calls) < MaxCalls
    /\ Early
    /\ \E opts \in SpeakOptions(lib) :
          LET id == Len(calls) + 1
              b == speakBegin(lib, host, synthFails = "cancel", opts, storeOk, store, memPreferred)
              f == fetchVoices(lib, host, available, now)
              q == IF b.cancelled THEN <<>> ELSE queue
              n == platformCalls + (IF b.cancelCalled THEN 1 ELSE 0)
              c == [id |-> id, kind |-> "speak", text |-> Texts[id], opts |-> opts,
                    lang |-> b.lang, uri |-> b.uri, status |-> "waiting",
                    start |-> now, due |-> f.due, voices |-> <<>>,
                    given |-> lastPref.given, written |-> lastPref.written]
          IN  IF b.flow # "await"
              THEN /\ calls' = Append(calls, [c EXCEPT !.due = NoTimer,
                                                       !.status = IF b.flow = "return"
                                                                  THEN "returned"
                                                                  ELSE "rejected"])
                   /\ queue' = q
                   /\ platformCalls' = n
                   /\ UNCHANGED <<handed, handler>>
              ELSE IF f.outcome = "resolved"
              THEN /\ Settle(c, f.voices, q, n, Append(calls, c))
                   /\ UNCHANGED handler
              ELSE /\ calls' = Append(calls, c)
                   /\ handler' = IF f.setsHandler THEN id ELSE handler
                   /\ queue' = q
                   /\ platformCalls' = n
                   /\ UNCHANGED handed
    /\ UNCHANGED <<lib, host, synthFails, storeOk, store, memPreferred, lastPref, prefWrites,
                   available, loadedAt, now>>
    /\ UNCHANGED <<timerVars, voiceVars>>

(* A call of the voice wait by itself (the page of part_000 makes one   *)
(* when it mounts).                                                     *)
CallFetch ==
    /\ Len(calls) < MaxCalls
    /\ Early
    /\ LET id == Len(calls) + 1
           f == fetchVoices(lib, host, available, now)
           c == [id |-> id, kind |-> "fetch", text |-> "", opts |-> [lang |-> NoLang, voiceURI |-> Null],
                 lang |-> NoLang, uri |-> Null,
                 status |-> IF f.outcome = "resolved" THEN "fulfilled"
                            ELSE IF f.outcome = "throws" THEN "threw"
                            ELSE "waiting",
                 start |-> now, due |-> f.due, voices |-> f.voices,
                 given |-> lastPref.given, written |-> lastPref.written]
       IN  /\ calls' = Append(calls, c)
           /\ handler' = IF f.setsHandler THEN id ELSE handler
    /\ UNCHANGED <<lib, host, synthFails, storeOk, store, memPreferred, lastPref, prefWrites,
                   available, loadedAt, queue, handed, platformCalls, now>>
    /\ UNCHANGED <<timerVars, voiceVars>>

(* The timer of a pending wait is due and runs its callback. *)
TimerFires ==
    /\ \E id \in 1..Len(calls) :
          /\ Waiting(id)
          /\ calls[id].due = now
          /\ LET r == TimerCallback(lib, host, available, calls[id].start, now)
             IN  IF r.outcome = "resolved"
                 THEN Settle(calls[id], r.voices, queue, platformCalls, calls)
                 ELSE /\ calls' = [calls EXCEPT ![id].due = r.due]
                      /\ UNCHANGED <<queue, handed, platformCalls>>
    /\ UNCHANGED <<lib, host, synthFails, storeOk, store, memPreferred, lastPref, prefWrites,
                   available, loadedAt, handler, now>>
    /\ UNCHANGED <<timerVars, voiceVars>>

(* The platform's voices arrive and no voiceschanged callback runs:     *)
(* none is set, or the platform fires no event.                         *)
VoicesLoad ==
    /\ host = "ok"
    /\ Early
    /\ available = <<>>
    /\ available' = LoadedCatalog
    /\ loadedAt' = now
    /\ UNCHANGED <<lib, host, synthFails, storeOk, store, memPreferred, lastPref, prefWrites,
                   handler, calls, queue, handed, platformCalls, now>>
    /\ UNCHANGED <<timerVars, voiceVars>>

(* The platform's voices arrive and the voiceschanged event runs the    *)
(* callback that synth.onvoiceschanged holds: the last one stored.      *)
VoicesChanged ==
    /\ host = "ok"
    /\ Early
    /\ available = <<>>
    /\ handler # 0
    /\ available' = LoadedCatalog
    /\ loadedAt' = now
    /\ handler' = HandlerAfterEvent(lib, handler)
    /\ IF Waiting(handler)
       THEN Settle(calls[handler], LoadedCatalog, queue, platformCalls, calls)
       ELSE UNCHANGED <<calls, queue, handed, platformCalls>>
    /\ UNCHANGED <<lib, host, synthFails, storeOk, store, memPreferred, lastPref, prefWrites, now>>
    /\ UNCHANGED <<timerVars, voiceVars>>

(* Time passes up to the next timer due; a timer that is due runs       *)
(* before time passes.                                                  *)
Advance ==
    /\ \E id \in 1..Len(calls) : Waiting(id)
    /\ \A id \in 1..Len(calls) : Waiting(id) => calls[id].due > now
    /\ now' = CHOOSE t \in {calls[id].due : id \in {i \in 1..Len(calls) : Waiting(i)}} :
                 \A id \in 1..Len(calls) : Waiting(id) => t <= calls[id].due
    /\ UNCHANGED <<lib, host, synthFails, storeOk, store, memPreferred, lastPref, prefWrites,
                   available, loadedAt, handler, calls, queue, handed, platformCalls>>
    /\ UNCHANGED <<timerVars, voiceVars>>

(* The platform has spoken the utterance at the head of its queue. *)
UtteranceEnds ==
    /\ queue # <<>>
    /\ queue' = Tail(queue)
    /\ UNCHANGED <<lib, host, synthFails, storeOk, store, memPreferred, lastPref, prefWrites,
                   available, loadedAt, handler, calls, handed, platformCalls, now>>
    /\ UNCHANGED <<timerVars, voiceVars>>

(* setPreferredVoiceURI(uri); the second draft of tts.ts has none. *)
SetPreferred ==
    /\ lib # "tts2"
    /\ prefWrites < MaxPrefCalls
    /\ Early
    /\ \E uri \in {"paulina"} \cup (IF lib = "part1" THEN {Null} ELSE {}) :
          LET r == IF lib = "tts1"
                   THEN setPreferredVoiceURITts1(storeOk, store, memPreferred, uri)
                   ELSE setPreferredVoiceURIPart1(storeOk, store, memPreferred, uri)
          IN  /\ store' = r.store
              /\ memPreferred' = r.mem
              /\ lastPref' = [op |-> "set", value |-> uri, threw |-> r.threw, given |-> uri,
                            written |-> uri]
    /\ prefWrites' = prefWrites + 1
    /\ UNCHANGED <<lib, host, synthFails, storeOk,
                   available, loadedAt, handler, calls, queue, handed, platformCalls, now>>
    /\ UNCHANGED <<timerVars, voiceVars>>

(* getPreferredVoiceURI() *)
GetPreferred ==
    /\ lib # "tts2"
    /\ prefWrites < MaxPrefCalls
    /\ Early
    /\ LET r == getPreferredVoiceURI(storeOk, store)
       IN  lastPref' = [op |-> "get", value |-> r.value, threw |-> r.threw,
                       given |-> lastPref.given, written |-> lastPref.written]
    /\ prefWrites' = prefWrites + 1
    /\ UNCHANGED <<lib, host, synthFails, storeOk, store, memPreferred,
                   available, loadedAt, handler, calls, queue, handed, platformCalls, now>>
    /\ UNCHANGED <<timerVars, voiceVars>>

NextTts ==
    \/ CallSpeak
    \/ CallFetch
    \/ TimerFires
    \/ VoicesLoad
    \/ VoicesChanged
    \/ Advance
    \/ UtteranceEnds

SpecTts == InitTts /\ [][NextTts]_vars

NextErr ==
    \/ CallSpeak
    \/ CallFetch
    \/ TimerFires
    \/ Advance
    \/ SetPreferred
    \/ GetPreferred

SpecErr == InitErr /\ [][NextErr]_vars

(* ------------------------------------------------------------------ *)
(* Properties                                                          *)
(* ------------------------------------------------------------------ *)
HasKind(said, kinds) == \E i \in 1..Len(said) : said[i].kind \in kinds

(* C1: a timer started from Idle while active that then receives exactly *)
(* totalSeconds ticks and nothing else is Expired with remainingSeconds  *)
(* 0; its run emitted exactly one expired announcement, at the last      *)
(* tick; before the last tick none was emitted and the timer was still   *)
(* Running; after it no interval is left to tick.                        *)
C1_RunToExpiry ==
    runTicks # NoRun =>
        /\ runTicks <= timer.initialSeconds
        /\ timer.timeLeft = timer.initialSeconds - runTicks
        /\ runTicks < timer.initialSeconds =>
              /\ IsRunning(timer)
              /\ ~HasKind(runLog, {"expired"})
        /\ runTicks = timer.initialSeconds =>
              /\ IsExpired(timer)
              /\ timer.timeLeft = 0
              /\ CountKind(runLog, "expired") = 1
              /\ runLog[Len(runLog)] = [kind |-> "expired", at |-> timer.initialSeconds]
              /\ timer.live = {}

C1_Witness ==
    /\ runTicks = timer.initialSeconds
    /\ timer.initialSeconds = SpecialSeconds

(* C2: for t in {30, 10} and totalSeconds > t, since the last Reset the  *)
(* threshold-t announcement has been emitted exactly once if             *)
(* remainingSeconds has come down to t and not at all otherwise, under   *)
(* every interleaving of the operations.                                 *)
C2_ThresholdOnce ==
    /\ timer.initialSeconds > Threshold30 =>
          announcedCount.t30 = (IF timer.timeLeft <= Threshold30 THEN 1 ELSE 0)
    /\ timer.initialSeconds > Threshold10 =>
          announcedCount.t10 = (IF timer.timeLeft <= Threshold10 THEN 1 ELSE 0)

(* A running timer deactivated at 30 seconds and reactivated there. *)
C2_Witness ==
    /\ draft = "part0"
    /\ lastOp = "setPhase"
    /\ ~prev.isActive
    /\ timer.isActive
    /\ timer.running
    /\ timer.timeLeft = Threshold30
    /\ timer.initialSeconds > Threshold30
    /\ announcedCount.t30 = 1

(* C3: an uninterrupted run of a 120 second timer announces threshold-30 *)
(* at tick 90, threshold-10 at tick 110 and expired at tick 120, in this *)
(* order, and nothing else.                                              *)
C3_Scenario120 ==
    (runTicks # NoRun /\ timer.initialSeconds = NormalSeconds) =>
        runLog = (IF runTicks >= 90 THEN <<[kind |-> "threshold30", at |-> 90]>> ELSE <<>>)
                 \o (IF runTicks >= 110 THEN <<[kind |-> "threshold10", at |-> 110]>> ELSE <<>>)
                 \o (IF runTicks >= 120 THEN <<[kind |-> "expired", at |-> 120]>> ELSE <<>>)

C3_Witness ==
    /\ runTicks = 120
    /\ timer.initialSeconds = NormalSeconds
    /\ Len(runLog) = 3

(* Reading a spoken time back: the number said before a unit word. *)
MinuteWords == {"minute", "minutes", "minuto", "minutos"}
SecondWords == {"seconde", "secondes", "segundo", "segundos"}
ParseNumber(w) == CHOOSE n \in 0..SpecialSeconds : ToString(n) = w
UnitValue(words, units) ==
    IF \E i \in 2..Len(words) : words[i] \in units
    THEN ParseNumber(words[(CHOOSE i \in 2..Len(words) : words[i] \in units) - 1])
    ELSE 0
SpokenSeconds(words) == 60 * UnitValue(words, MinuteWords) + UnitValue(words, SecondWords)

C5_Reset ==
    lastOp = "reset" =>
        /\ IsIdle(timer)
        /\ State(timer) = "Idle"
        /\ timer.timeLeft = timer.initialSeconds
        /\ ~timer.warned30
        /\ ~timer.warned10
        /\ timer.live = {}
        /\ emitted = <<>>

(* A reset of a running timer that had announced both thresholds. *)
C5_Witness ==
    /\ lastOp = "reset"
    /\ IsRunning(prev)
    /\ prev.warned30
    /\ prev.warned10

(* C6: a Reset that follows a Reset leaves the whole timer as the first  *)
(* Reset left it, and says nothing.                                      *)
C6_ResetIdempotent ==
    resets = 2 =>
        /\ timer = prev
        /\ emitted = <<>>
        /\ announcedCount = [t30 |-> 0, t10 |-> 0]

C6_Witness ==
    /\ resets = 2
    /\ lastOp = "reset"
    /\ draft = "part0"

C8_Deactivation ==
    /\ (lastOp = "setPhase" /\ prev.isActive /\ ~timer.isActive) =>
          /\ timer.running = prev.running
          /\ timer.timeLeft = prev.timeLeft
          /\ State(timer) = State(prev)
    /\ ~timer.isActive => timer.live = {}
    /\ frozenAt # NotFrozen =>
          /\ IsRunning(timer)
          /\ timer.timeLeft = frozenAt
          /\ timer.isActive => Cardinality(timer.live) = 1

(* A running timer just reactivated. *)
C8_Witness ==
    /\ frozenAt # NotFrozen
    /\ lastOp = "setPhase"
    /\ ~prev.isActive
    /\ timer.isActive

(* C9: apart from a change of totalSeconds, remainingSeconds goes down   *)
(* only by a tick, by exactly 1, on a timer that was Running and active; *)
(* an interval is live only while the timer is Running, active and has   *)
(* time left, so none survives Pause, Reset or deactivation; threshold   *)
(* and expired announcements come only with a tick or with the Start     *)
(* that sets the timer running.                                          *)
C9_TickOnly ==
    /\ (timer.timeLeft < prev.timeLeft /\ lastOp # "setSpecial") => lastOp = "tick"
    /\ lastOp = "tick" =>
          /\ prev.running
          /\ prev.isActive
          /\ timer.timeLeft = prev.timeLeft - 1
    /\ timer.live # {} => (timer.running /\ timer.isActive /\ timer.timeLeft > 0)
    /\ HasKind(emitted, {"threshold30", "threshold10", "expired"}) =>
          \/ lastOp = "tick"
          \/ lastOp = "start" /\ timer.running

(* A pause that found an interval armed and left none. *)
C9_Witness ==
    /\ lastOp = "pause"
    /\ prev.live # {}
    /\ timer.live = {}

C11_TotalChange ==
    lastOp = "setSpecial" =>
        LET asProps == [prev EXCEPT !.special = timer.special,
                                    !.initialSeconds = timer.initialSeconds]
            asReset == Effects(draft, asProps, ResetClick(draft, asProps))
        IN  /\ timer.initialSeconds # prev.initialSeconds
            /\ timer.initialSeconds \in {NormalSeconds, SpecialSeconds}
            /\ timer = asReset.timer
            /\ emitted = asReset.said
            /\ emitted = <<>>
            /\ IsIdle(timer)
            /\ timer.timeLeft = timer.initialSeconds
            /\ announcedCount = [t30 |-> 0, t10 |-> 0]
            /\ timer.live = {}

(* The star given to a debater whose timer was left running, past the   *)
(* 30 second announcement, when the page went back to the setup panel.  *)
C11_Witness ==
    /\ lastOp = "setSpecial"
    /\ prev.running
    /\ prev.warned30
    /\ prev.timeLeft < Threshold30
    /\ timer.initialSeconds = SpecialSeconds

(* The timer an operation leaves when its handlers are followed without *)
(* any regard to speech: the operation is lastOp, applied to prev, with *)
(* the phase, language and star it chose.                               *)
SilentOutcome ==
    LET click(label) ==
            IF ButtonLabel(prev) = label /\ ~ButtonDisabled(prev)
            THEN toggleRunning(draft, prev).timer
            ELSE prev
    IN  CASE lastOp = "start" -> Effects(draft, prev, click("Start")).timer
          [] lastOp = "pause" -> Effects(draft, prev, click("Pause")).timer
          [] lastOp = "reset" -> Effects(draft, prev, ResetClick(draft, prev)).timer
          [] lastOp = "tick" -> Effects(draft, prev, TickUpdate(draft, prev).timer).timer
          [] lastOp = "setPhase" ->
                 Effects(draft, prev, [prev EXCEPT !.isActive = (phase = prev.target)]).timer
          [] lastOp = "setVoiceLang" ->
                 Effects(draft, prev, [prev EXCEPT !.voiceLang = timer.voiceLang]).timer
          [] lastOp = "setSpecial" ->
                 InitialSecondsEffect(draft, [prev EXCEPT !.special = timer.special,
                                                          !.initialSeconds = timer.initialSeconds]).timer
          [] OTHER -> prev

IndexOfURI(voices, uri) == find({i \in DOMAIN voices : voices[i].voiceURI = uri})

(* C20: a forced identifier that is present and in the catalog is the   *)
(* identifier of the voice chosen, whatever the requested locale and    *)
(* the other voices; a forced identifier that is in no voice of the     *)
(* catalog changes nothing to the choice made without it.               *)
C20_ForcedVoice ==
    sel.done =>
        /\ (sel.forced # Null /\ IndexOfURI(sel.voices, sel.forced) # 0) =>
               /\ sel.picked # NoVoice
               /\ sel.voices[sel.picked].voiceURI = sel.forced
        /\ (sel.forced # Null /\ IndexOfURI(sel.voices, sel.forced) = 0) =>
               sel.picked = selectVoice(sel.lib, sel.voices, sel.lang, Null)

(* A forced voice chosen although a voice of the requested locale       *)
(* stands before it in the catalog.                                     *)
C20_Witness ==
    /\ sel.done
    /\ sel.forced = "paulina"
    /\ sel.lang = FrFR
    /\ Len(sel.voices) = 3
    /\ sel.voices[1] = Amelie
    /\ sel.voices[3] = Paulina
    /\ sel.picked = 3

(* C12 as stated: at most one utterance is speaking or queued on the    *)
(* platform at any instant.                                             *)
C12_AtMostOne == Len(queue) <= 1

(* C13 as stated: utterances are handed to the platform in the order of *)
(* the speak calls that made them.                                      *)
C13_InOrder ==
    \A i, j \in 1..Len(handed) : i < j => handed[i].call < handed[j].call

(* The timeout of the voice wait of a draft. *)
TimeoutMs(l) ==
    IF l = "tts1" THEN WaitForVoicesMs
    ELSE IF l = "tts2" THEN GetVoicesSafeMs
    ELSE ListVoicesMs

(* C14 as stated: a wait is over as soon as the platform's list is not  *)
(* empty or its timeout has elapsed, whichever comes first, to within   *)
(* one polling period: no call is still waiting for the list one        *)
(* polling period after the list came, or after its timeout.            *)
C14_ResolvesAtFirst ==
    \A id \in 1..Len(calls) :
        Waiting(id) =>
            /\ available # <<>> => now - loadedAt <= PollMs
            /\ now - calls[id].start <= TimeoutMs(lib) + PollMs

(* C16 as stated: on a host without the speech capability every voice   *)
(* wait that is over gave the empty list, every speak returned at its   *)
(* guard, no call threw or was rejected, and neither cancel nor speak   *)
(* was called on the platform.                                          *)
C16_NoCapability ==
    host # "ok" =>
        /\ platformCalls = 0
        /\ handed = <<>>
        /\ \A id \in 1..Len(calls) :
              /\ calls[id].status \notin {"threw", "rejected"}
              /\ calls[id].kind = "speak" => calls[id].status = "returned"
              /\ (calls[id].kind = "fetch" /\ ~Waiting(id)) =>
                     /\ calls[id].status = "fulfilled"
                     /\ calls[id].voices = <<>>

(* The voice of an utterance handed to the platform is the one the      *)
(* draft's choice gives, on the list its call was resumed with, for a   *)
(* forced identifier.                                                   *)
ChosenWith(u, forced) ==
    u.voice = VoiceURIOf(calls[u.call].voices,
                         selectVoice(lib, calls[u.call].voices, u.lang, forced))

(* C17 as stated: with the store out of reach, setPreferredVoiceURI and *)
(* getPreferredVoiceURI do not throw, getPreferredVoiceURI returns      *)
(* null, and a speak given no voiceURI chooses its voice as with no     *)
(* forced identifier.                                                   *)
C17_LocaleChainOnly ==
    ~storeOk =>
        /\ ~lastPref.threw
        /\ lastPref.op = "get" => lastPref.value = Null
        /\ \A k \in 1..Len(handed) :
              calls[handed[k].call].opts.voiceURI = Null => ChosenWith(handed[k], Null)

(* C17, amended: with the store out of reach, neither function throws,  *)
(* getPreferredVoiceURI returns null, and a speak given no voiceURI     *)
(* forces no identifier of the store: it chooses its voice as with no   *)
(* forced identifier, except in part_001, where it forces the           *)
(* identifier last given to setPreferredVoiceURI since the page was     *)
(* loaded, if any (the module keeps it in memory).                      *)
C17_NoStoredIdentifier ==
    ~storeOk =>
        /\ ~lastPref.threw
        /\ lastPref.op = "get" => lastPref.value = Null
        /\ \A k \in 1..Len(handed) :
              calls[handed[k].call].opts.voiceURI = Null =>
                  ChosenWith(handed[k],
                             IF lib = "part1" THEN calls[handed[k].call].given ELSE Null)

(* With the store out of reach, a voice was preferred, then read back   *)
(* as null, and a speak without voiceURI was handed to the platform.    *)
C17_Witness ==
    /\ ~storeOk
    /\ lastPref.op = "get"
    /\ lastPref.given = "paulina"
    /\ lastPref.value = Null
    /\ \E k \in 1..Len(handed) :
          /\ calls[handed[k].call].opts.voiceURI = Null
          /\ calls[handed[k].call].given = "paulina"
          /\ handed[k].lang = FrFR

(* C18: a speak that was resumed with an empty voice list has handed    *)
(* the platform one utterance, with the text of the call, the lang      *)
(* asked for (the draft's default if none was) and no voice set.        *)
C18_EmptyCatalog ==
    \A id \in 1..Len(calls) :
        (/\ calls[id].kind = "speak"
         /\ calls[id].status \notin {"waiting", "returned"}
         /\ calls[id].voices = <<>>)
        => /\ calls[id].status = "fulfilled"
           /\ Cardinality({k \in 1..Len(handed) : handed[k].call = id}) = 1
           /\ \A k \in 1..Len(handed) :
                  handed[k].call = id =>
                      /\ handed[k].text = calls[id].text
                      /\ handed[k].lang = (IF calls[id].opts.lang = NoLang
                                           THEN DefaultLang(lib)
                                           ELSE calls[id].opts.lang)
                      /\ handed[k].voice = Null

(* A speak in Spanish whose wait ran into its timeout on a platform     *)
(* whose list is still empty, and whose utterance is in the queue.      *)
C18_Witness ==
    /\ available = <<>>
    /\ \E id \in 1..Len(calls) :
          /\ calls[id].kind = "speak"
          /\ calls[id].status = "fulfilled"
          /\ calls[id].opts.lang = EsMX
          /\ now - calls[id].start >= TimeoutMs(lib)
          /\ \E k \in 1..Len(queue) :
                 queue[k].call = id /\ queue[k].voice = Null /\ queue[k].lang = EsMX

(* C19 as stated: whichever platform call throws, no speak ends in an   *)
(* exception or a rejected promise.                                     *)
C19_FailureSwallowed ==
    \A id \in 1..Len(calls) :
        calls[id].kind = "speak" => calls[id].status \notin {"rejected", "threw"}

(* The selection had no forced identifier to honour: none was given or  *)
(* no voice of the catalog has it.                                      *)
ForcedMisses == sel.forced = Null \/ IndexOfURI(sel.voices, sel.forced) = 0

(* The first voice of the catalog whose locale is the requested one,    *)
(* whatever the case of the letters (0: none).                          *)
FirstExact == find({i \in DOMAIN sel.voices :
                       toLowerCase(sel.voices[i].lang) = toLowerCase(sel.lang)})

(* C21 as stated: without a forced identifier to honour, a catalog      *)
(* that has a voice of exactly the requested locale (letters compared   *)
(* without case) gets the first such voice in catalog order, even when  *)
(* a voice that shares only the primary subtag stands before it.        *)
C21_ExactLocaleFirst ==
    (sel.done /\ ForcedMisses /\ FirstExact # 0) => sel.picked = FirstExact

(* The voices of the catalog whose primary subtag (the locale up to its *)
(* first hyphen) is the requested one, whatever the case.               *)
PrimaryMatches ==
    {i \in DOMAIN sel.voices :
        splitFirst(toLowerCase(sel.voices[i].lang)) = splitFirst(toLowerCase(sel.lang))}

(* C22 as stated: without a forced identifier to honour and without a   *)
(* voice of exactly the requested locale, a voice matches by prefix if  *)
(* and only if its primary subtag is the requested primary subtag: the  *)
(* voice chosen is one of those, and when there is none a voice whose   *)
(* locale merely begins with the same letters is not taken for one (the *)
(* choice falls to the first entry).                                    *)
C22_PrimarySubtag ==
    (sel.done /\ ForcedMisses /\ FirstExact = 0 /\ Len(sel.voices) > 0) =>
        /\ PrimaryMatches # {} => sel.picked \in PrimaryMatches
        /\ PrimaryMatches = {} => sel.picked = 1

(* The keyword list a draft holds for voices of better quality; the     *)
(* second draft of tts.ts holds none.                                   *)
Keywords(l) ==
    IF l = "tts1" THEN PreferredBrands
    ELSE IF l = "part1" THEN MicrosoftOrGoogle
    ELSE <<>>

(* The prefix matches whose display name contains a keyword, whatever   *)
(* the case.                                                            *)
KeywordMatches ==
    {i \in PrimaryMatches :
        \E k \in DOMAIN Keywords(sel.lib) :
            includes(toLowerCase(sel.voices[i].name), Keywords(sel.lib)[k])}

(* C23 as stated: without a forced identifier to honour and without a   *)
(* voice of exactly the requested locale, the voice chosen among the    *)
(* prefix matches is the first in catalog order whose name contains a   *)
(* keyword, before any earlier prefix match without one; the first      *)
(* prefix match only when no prefix match has a keyword.                *)
C23_KeywordFirst ==
    (sel.done /\ ForcedMisses /\ FirstExact = 0 /\ PrimaryMatches # {}) =>
        sel.picked = (IF KeywordMatches # {} THEN find(KeywordMatches)
                      ELSE find(PrimaryMatches))

(* C24 as stated: the choice is absent exactly when the catalog is      *)
(* empty; with a catalog that is not empty and no voice that matches by *)
(* forced identifier, by exact locale or by locale prefix, it is the    *)
(* first entry of the catalog; a voice chosen is always one of the      *)
(* catalog.                                                             *)
C24_FallbackFirst ==
    sel.done =>
        /\ sel.picked = NoVoice <=> Len(sel.voices) = 0
        /\ sel.picked # NoVoice => sel.picked \in DOMAIN sel.voices
        /\ (Len(sel.voices) > 0 /\ ForcedMisses /\ FirstExact = 0 /\ PrimaryMatches = {}) =>
               sel.picked = 1

UnitWords(lang) ==
    IF lang \in {"fr", "fr-FR"}
    THEN [minute |-> <<"minute", "minutes">>, second |-> <<"seconde", "secondes">>]
    ELSE [minute |-> <<"minuto", "minutos">>, second |-> <<"segundo", "segundos">>]

(* A unit of value v is said well in a text: not at all when v is 0,    *)
(* once otherwise, after its number, in the singular exactly when v is  *)
(* 1.                                                                   *)
UnitSaidWell(words, unit, v) ==
    LET at == {i \in DOMAIN words : words[i] = unit[1] \/ words[i] = unit[2]}
    IN  IF v = 0 THEN at = {}
        ELSE /\ Cardinality(at) = 1
             /\ \A i \in at :
                    /\ i > 1
                    /\ words[i - 1] = ToString(v)
                    /\ words[i] = (IF v = 1 THEN unit[1] ELSE unit[2])

(* C27 as stated: for every remaining time of 1 to 150 seconds and both *)
(* languages, the text of the remaining time has each unit in the       *)
(* singular exactly when its value is 1 and in the plural otherwise,    *)
(* minutes and seconds alike, and leaves out a unit whose value is 0.   *)
C27_SingularPlural ==
    phrase.done =>
        /\ UnitSaidWell(phrase.words, UnitWords(phrase.lang).minute, phrase.seconds \div 60)
        /\ UnitSaidWell(phrase.words, UnitWords(phrase.lang).second, phrase.seconds % 60)

(* C29: a running timer has time left, in every reachable state: the    *)
(* tick that brings the remaining time to 0 leaves Running in the same  *)
(* step, and no operation gives a running timer with 0 left.            *)
C29_RunningHasTime ==
    /\ timer.running => timer.timeLeft > 0
    /\ (lastOp = "tick" /\ timer.timeLeft = 0) => IsExpired(timer)

(* The last tick of a running timer, in each draft. *)
C29_Witness ==
    /\ lastOp = "tick"
    /\ prev.running
    /\ prev.timeLeft = 1
    /\ timer.timeLeft = 0
    /\ ~timer.running

(* C30: a timer has at most one pending interval, and has one only      *)
(* while it is running, active and has time left: each run of the tick  *)
(* effect clears the interval of the run before it, so one callback     *)
(* fires per second and takes one second off, never more.               *)
C30_OneInterval ==
    /\ Cardinality(timer.live) <= 1
    /\ timer.live # {} => (timer.running /\ timer.isActive /\ timer.timeLeft > 0)
    /\ timer.live # {} => timer.live = {timer.intervalRef}
    /\ lastOp = "tick" => timer.timeLeft = prev.timeLeft - 1

(* A tick after which the effect ran again: the interval of the render  *)
(* before is cleared and another one is pending.                        *)
C30_Witness ==
    /\ lastOp = "tick"
    /\ Cardinality(prev.live) = 1
    /\ Cardinality(timer.live) = 1
    /\ timer.live # prev.live
    /\ timer.timeLeft = prev.timeLeft - 1

(* C28: with a store that works, getPreferredVoiceURI returns the       *)
(* identifier of the most recent setPreferredVoiceURI (null when none   *)
(* was ever written), whatever the calls before it, and a speak given   *)
(* no voiceURI forces that identifier.                                  *)
C28_LastWriteWins ==
    (storeOk /\ lib # "tts2") =>
        /\ getPreferredVoiceURI(storeOk, store).value = lastPref.written
        /\ lastPref.op = "get" => lastPref.value = lastPref.written
        /\ \A k \in 1..Len(handed) :
              calls[handed[k].call].opts.voiceURI = Null =>
                  ChosenWith(handed[k], calls[handed[k].call].written)

(* A speak given no voiceURI forced the identifier written in an       *)
(* earlier session; then another voice was preferred, was read back,    *)
(* and a second speak given no voiceURI forced that one.                *)
C28_Witness ==
    /\ storeOk
    /\ lib = "tts1"
    /\ lastPref.op = "get"
    /\ lastPref.value = "paulina"
    /\ Len(handed) = 2
    /\ \A k \in 1..2 : calls[handed[k].call].opts.voiceURI = Null
    /\ calls[handed[1].call].written = "samantha"
    /\ handed[1].voice = "samantha"
    /\ calls[handed[2].call].written = "paulina"
    /\ handed[2].lang = FrFR
    /\ handed[2].voice = "paulina"

Specials ==
    {m \in MemberIds : MemberOf(teams.teamA, teams.teamB, m).isSpecial}

(* A timer as the effect on initialSeconds leaves it. *)
IsResetTo(t, total) ==
    /\ t.initialSeconds = total
    /\ t.timeLeft = total
    /\ ~t.running
    /\ ~t.warned30
    /\ ~t.warned10
    /\ t.live = {}

(* C31: after any setSpecial calls at most one debater of the two teams *)
(* is special, the debater of the last call; so at most one development *)
(* timer is of 150 seconds, the special debater's, and the others are   *)
(* of 120; and a setSpecial resets the timers whose total it changed    *)
(* and leaves every other timer as it was.                              *)
C31_OneSpecial ==
    /\ Cardinality(Specials) <= 1
    /\ Specials = (IF teams.last = <<>> THEN {} ELSE {teams.last})
    /\ \A m \in DOMAIN teams.timers :
          teams.timers[m].initialSeconds =
              (IF m \in Specials THEN SpecialSeconds ELSE NormalSeconds)
    /\ teams.op = "setSpecial" =>
          \A m \in MemberIds :
              IF teams.timers[m].initialSeconds # teams.before[m].initialSeconds
              THEN IsResetTo(teams.timers[m], teams.timers[m].initialSeconds)
              ELSE teams.timers[m] = teams.before[m]

(* The star goes from one debater to another of the other team while a  *)
(* third debater's timer, started and ticked, is left as it was; the    *)
(* two timers whose total changed were running and are reset.           *)
C31_Witness ==
    /\ teams.op = "setSpecial"
    /\ teams.last = <<"B", 1>>
    /\ teams.before[<<"A", 1>>].initialSeconds = SpecialSeconds
    /\ teams.before[<<"A", 1>>].running
    /\ teams.before[<<"B", 1>>].running
    /\ IsResetTo(teams.timers[<<"A", 1>>], NormalSeconds)
    /\ IsResetTo(teams.timers[<<"B", 1>>], SpecialSeconds)
    /\ teams.timers[<<"A", 2>>].running
    /\ teams.timers[<<"A", 2>>].timeLeft < NormalSeconds
    /\ teams.timers[<<"A", 2>>] = teams.before[<<"A", 2>>]

====
